---- MODULE Spec2Model ----
(***************************************************************************)
(* Offline-first synchronisation engine of the Combust fuel tracker        *)
(* (src/src/services/fuelService.ts): one device's local IndexedDB store,  *)
(* its localStorage sync queue, the App's list of entries, and the shared  *)
(* remote table fuel_entries.                                              *)
(*                                                                         *)
(* Conventions.  An absent optional value (undefined / null) is 0: local   *)
(* ids start at 1 (IndexedDB autoIncrement), remote uuids are modelled as  *)
(* the row's position 1, 2, ... in the remote table, and every timestamp   *)
(* is a reading >= 1 of the logical clock.  The code itself tests these    *)
(* values for truthiness (if (localId && ...), !e.supabaseId).  A date     *)
(* 'yyyy/MM/dd' is modelled by its day number, which orders as the string  *)
(* does.  created_at / updated_at of a remote row are written but never    *)
(* read by the engine and are left out.                                    *)
(***************************************************************************)
EXTENDS Integers, Sequences, FiniteSets, TLC

VARIABLES
    entries,    \* IndexedDB store 'entries': id -> record
    nextId,     \* the store's key generator (next autoIncrement id)
    remote,     \* remote table fuel_entries: sequence of rows, row.id = index
    queue,      \* localStorage['combust_sync_queue']
    view,       \* the App's state `entries` (what the caller holds)
    clock,      \* logical time; ticks once per operation
    foreign,    \* ids of the rows inserted by another device of the owner
    faults,     \* faults injected so far
    last,       \* what the last operation did and returned
    call,       \* the service call in progress and the await it stands at
    auth,       \* AuthProvider: the signed-in user, and localStorage['combust_local_user_map']
    who,        \* history: who[t] is the remote owner signed in at operation t
    tasks,      \* the asynchronous runs in progress, each at one of its awaits
    authState   \* AuthProvider: authState.status, and whether localStorage holds SESSION_KEY

vars == <<entries, nextId, remote, queue, view, clock, foreign, faults, last, call, auth, who,
         tasks, authState>>

-----------------------------------------------------------------------------
(* Bounds of the model *)

MaxOps == 4         \* operations (service calls and other-device writes) per run
MaxFaults == 1      \* remote/local faults injected into one run
MaxForeign == 1     \* rows another device of the same owner inserts
DeepOps == 5        \* operations per run of the longer, one-entry runs
OnlineOps == 7      \* operations per run of the always-online, fault-free runs
AwaitOps == 3       \* service calls per run of the await-by-await runs
SessionOps == 6
MaxTasks == 2     \* runs of fullSync / getAllEntries in progress at once
OverlapOps == 2   \* user operations in a run with overlapping syncs
DrainOps == 3     \* user operations alongside one fullSync run
DbOps == 3        \* calls of the local store adapter in a run
MaxList == 2      \* entries in a list given to bulkAddEntries / replaceAllEntries
AuthOps == 3      \* sign-ins, sign-outs and auth events of a run of the AuthProvider     \* operations and auth events per run of the session runs

(* The signed-in owner: local user id and remote user id *)
OwnerLocal == 1
OwnerRemote == 1

(* The entries a user types in: two fill-ups that share their identity    *)
(* key (date, amountPaid, odometerReading, fuelFilled) and differ in the  *)
(* station, and one with another key                                       *)
Draft(date, fuelStation) ==
    [date |-> date, amountPaid |-> 800, odometerReading |-> 10250, fuelFilled |-> 8,
     fuelStation |-> fuelStation]

Drafts == {Draft(18, "Shell"), Draft(18, "BP"), Draft(19, "Shell")}

DeepDrafts == {Draft(18, "Shell")}

ForeignLocalIds == {1}

(* The remote ids of the users who sign in on the device *)
Owners == {1, 2}

-----------------------------------------------------------------------------
(* Small helpers *)

Max(a, b) == IF a >= b THEN a ELSE b

Min(S) == CHOOSE x \in S : \A y \in S : x <= y

RECURSIVE SetToSeq(_)
SetToSeq(S) ==
    IF S = {} THEN <<>>
    ELSE LET m == Min(S) IN <<m>> \o SetToSeq(S \ {m})

RECURSIVE KSubsets(_, _)
KSubsets(S, k) ==
    IF k = 0 THEN {{}}
    ELSE LET smaller == KSubsets(S, k - 1)
         IN  smaller \cup {A \cup {x} : A \in smaller, x \in S}

Range(s) == {s[i] : i \in DOMAIN s}

FieldsOf(e) ==
    [date |-> e.date, amountPaid |-> e.amountPaid,
     odometerReading |-> e.odometerReading, fuelFilled |-> e.fuelFilled,
     fuelStation |-> e.fuelStation]

RowFields(r) ==
    [date |-> r.date, amountPaid |-> r.amount_paid,
     odometerReading |-> r.odometer_reading, fuelFilled |-> r.fuel_filled,
     fuelStation |-> r.fuel_station]

(* `${date}|${amount_paid}|${odometer_reading}|${fuel_filled}` *)
KeyOfRow(r) == <<r.date, r.amount_paid, r.odometer_reading, r.fuel_filled>>

KeyOfEntry(e) == <<e.date, e.amountPaid, e.odometerReading, e.fuelFilled>>

-----------------------------------------------------------------------------
(* The stores as one value threaded through an operation:                  *)
(* [entries, nextId, remote, queue]                                        *)

StoreState == [entries |-> entries, nextId |-> nextId, remote |-> remote, queue |-> queue]

(* A record of the local store.  localDb.addEntry / localDb.updateEntry    *)
(* write {userId, date, ...} only: supabaseId and syncedAt are absent (0). *)
(* No write of the service stores isDeleted: it reads as undefined (FALSE).*)
LocalRecord(id, userId, f, supabaseId, syncedAt) ==
    [id |-> id, userId |-> userId, date |-> f.date, amountPaid |-> f.amountPaid,
     odometerReading |-> f.odometerReading, fuelFilled |-> f.fuelFilled,
     fuelStation |-> f.fuelStation, supabaseId |-> supabaseId, syncedAt |-> syncedAt,
     isDeleted |-> FALSE]

(* store.add(entry) on a keyPath 'id' autoIncrement store *)
DbAdd(s, userId, f, supabaseId, syncedAt) ==
    [s EXCEPT !.entries = (s.nextId :> LocalRecord(s.nextId, userId, f, supabaseId, syncedAt)) @@ s.entries,
              !.nextId = s.nextId + 1]

(* store.put(entry): full replace or insert under the entry's own id; an   *)
(* explicit key at or above the generator moves the generator past it.     *)
DbPut(s, rec) ==
    [s EXCEPT !.entries = (rec.id :> rec) @@ s.entries,
              !.nextId = Max(s.nextId, rec.id + 1)]

(* A delete that would keep the record and flag it: C20 rules it out *)
DbDelete_SoftDeletes(s, id) ==
    IF id \in DOMAIN s.entries
    THEN [s EXCEPT !.entries[id] = [@ EXCEPT !.isDeleted = TRUE]]
    ELSE s

(* store.delete(id) *)
DbDelete(s, id) ==
    [s EXCEPT !.entries = [k \in (DOMAIN s.entries) \ {id} |-> s.entries[k]]]

(* A clear that would empty the whole store, whoever owns the records *)
DbClearAll_Everyone(s, userId) == [s EXCEPT !.entries = [k \in {} |-> s.entries[k]]]

(* clearAllEntries: a cursor over the index userId, deleting each record *)
DbClearAll(s, userId) ==
    [s EXCEPT !.entries = [k \in {j \in DOMAIN s.entries : s.entries[j].userId # userId}
                             |-> s.entries[k]]]

(* index('userId').getAll(userId): the owner's records in key order *)
DbAllOfUser(s, userId) ==
    LET ids == {k \in DOMAIN s.entries : s.entries[k].userId = userId}
        order == SetToSeq(ids)
    IN  [i \in 1..Len(order) |-> s.entries[order[i]]]

(* The FuelEntry a caller holds.  A field a local record does not store    *)
(* (supabaseUserId) reads as undefined: 0.                                 *)
FuelEntry(id, userId, f, supabaseId, supabaseUserId, syncedAt, isDeleted) ==
    [id |-> id, supabaseId |-> supabaseId, userId |-> userId,
     supabaseUserId |-> supabaseUserId, date |-> f.date, amountPaid |-> f.amountPaid,
     odometerReading |-> f.odometerReading, fuelFilled |-> f.fuelFilled,
     fuelStation |-> f.fuelStation, syncedAt |-> syncedAt, isDeleted |-> isDeleted]

LocalAsFuelEntry(e) ==
    FuelEntry(e.id, e.userId, FieldsOf(e), e.supabaseId, 0, e.syncedAt, e.isDeleted)

-----------------------------------------------------------------------------
(* Record mapper *)

(* A mapper that would copy fuel_filled into amountPaid and amount_paid    *)
(* into fuelFilled                                                         *)
supabaseToLocal_Swapped(entry, localUserId) ==
    [id |-> entry.local_id, supabaseId |-> entry.id, userId |-> localUserId,
     supabaseUserId |-> entry.user_id, date |-> entry.date, amountPaid |-> entry.fuel_filled,
     odometerReading |-> entry.odometer_reading, fuelFilled |-> entry.amount_paid,
     fuelStation |-> entry.fuel_station, syncedAt |-> entry.synced_at,
     isDeleted |-> entry.is_deleted]

supabaseToLocal(entry, localUserId) ==
    FuelEntry(entry.local_id, localUserId, RowFields(entry), entry.id, entry.user_id,
              entry.synced_at, entry.is_deleted)

(* The row draft (no id yet); `now` is new Date().toISOString() *)
localToSupabase(id, f, supabaseUserId, now) ==
    [user_id |-> supabaseUserId, date |-> f.date, amount_paid |-> f.amountPaid,
     odometer_reading |-> f.odometerReading, fuel_filled |-> f.fuelFilled,
     fuel_station |-> f.fuelStation, local_id |-> id, is_deleted |-> FALSE,
     synced_at |-> now]

-----------------------------------------------------------------------------
(* Remote table *)

RowOf(draft, id) ==
    [id |-> id, user_id |-> draft.user_id, date |-> draft.date,
     amount_paid |-> draft.amount_paid, odometer_reading |-> draft.odometer_reading,
     fuel_filled |-> draft.fuel_filled, fuel_station |-> draft.fuel_station,
     local_id |-> draft.local_id, is_deleted |-> draft.is_deleted,
     synced_at |-> draft.synced_at]

(* .insert(draft).select().single(): the server assigns the id *)
RemoteInsert(s, draft) ==
    [s EXCEPT !.remote = Append(s.remote, RowOf(draft, Len(s.remote) + 1))]

NewRowId(s) == Len(s.remote) + 1

(* .update({date, ...}).eq('id', id).eq('user_id', user): no row, no change *)
(* An update that would also write is_deleted = false *)
RemoteUpdateFields_Undeletes(s, id, user, f) ==
    IF id \in DOMAIN s.remote /\ s.remote[id].user_id = user
    THEN [s EXCEPT !.remote[id] =
            [@ EXCEPT !.date = f.date, !.amount_paid = f.amountPaid,
                      !.odometer_reading = f.odometerReading,
                      !.fuel_filled = f.fuelFilled, !.fuel_station = f.fuelStation,
                      !.is_deleted = FALSE]]
    ELSE s

RemoteUpdateFields(s, id, user, f) ==
    IF id \in DOMAIN s.remote /\ s.remote[id].user_id = user
    THEN [s EXCEPT !.remote[id] =
            [@ EXCEPT !.date = f.date, !.amount_paid = f.amountPaid,
                      !.odometer_reading = f.odometerReading,
                      !.fuel_filled = f.fuelFilled, !.fuel_station = f.fuelStation]]
    ELSE s

(* A soft delete that would not reach the row: C16 rules it out *)
RemoteSoftDelete_Noop(s, id, user) == s

(* .update({is_deleted: true}).eq('id', id).eq('user_id', user) *)
RemoteSoftDelete(s, id, user) ==
    IF id \in DOMAIN s.remote /\ s.remote[id].user_id = user
    THEN [s EXCEPT !.remote[id].is_deleted = TRUE]
    ELSE s

(* .select('*').eq('user_id', user).eq('is_deleted', flag): row ids, in    *)
(* table order                                                             *)
RemoteIds(s, user, flag) ==
    {i \in DOMAIN s.remote : s.remote[i].user_id = user /\ s.remote[i].is_deleted = flag}

(* .order('date', {ascending: false}): the ids by date descending, rows    *)
(* of one date in table order                                              *)
RECURSIVE ByDateDesc(_, _)
ByDateDesc(s, ids) ==
    IF ids = {} THEN <<>>
    ELSE LET top == CHOOSE i \in ids :
                        \A j \in ids : \/ s.remote[i].date > s.remote[j].date
                                       \/ s.remote[i].date = s.remote[j].date /\ i <= j
         IN  <<top>> \o ByDateDesc(s, ids \ {top})

(* .eq(date).eq(amount_paid).eq(odometer_reading).eq(fuel_filled)           *)
(* .eq('is_deleted', flag).maybeSingle(): the row when exactly one matches, *)
(* no data when none matches and an error (no data) when several do.        *)
(* 0 stands for "no data".                                                  *)
MaybeSingleByKey(s, user, key, flag) ==
    LET hits == {i \in RemoteIds(s, user, flag) : KeyOfRow(s.remote[i]) = key}
    IN  IF Cardinality(hits) = 1 THEN CHOOSE i \in hits : TRUE ELSE 0

-----------------------------------------------------------------------------
(* Faults.  A fault plan is the set of calls that fail in one operation:   *)
(* <<"local", 0, "down">>  the local store rejects every call;             *)
(* <<phase, index, "err">> the remote call fails and changes nothing;      *)
(* <<phase, index, "lost">> the remote insert is applied but its response  *)
(*                          is lost, so the client sees an error;          *)
(* a failed select whose error the code ignores is named by what it        *)
(* fetches ("deleted", "existing", "deletedKeys"); it counts as hit only   *)
(* when it hides data, since the code sees {data: null} either way.        *)

LocalDown(F) == <<"local", 0, "down">> \in F

Outcome(F, phase, index) ==
    IF <<phase, index, "err">> \in F THEN "err"
    ELSE IF <<phase, index, "lost">> \in F THEN "lost"
    ELSE "ok"

SelectFails(F, phase, index, what) == <<phase, index, what>> \in F

(* The plans an operation may meet: what is left of the run's budget *)
Plans(tokens) == KSubsets(tokens, MaxFaults - faults)

RemoteFaults(F) == {t \in F : t[1] # "local"}

-----------------------------------------------------------------------------
(* Sync queue (localStorage) *)

QueueItem(type, localId, supabaseId, data, timestamp) ==
    [type |-> type, localId |-> localId, supabaseId |-> supabaseId,
     data |-> data, timestamp |-> timestamp]

addToSyncQueue(s, item) == [s EXCEPT !.queue = Append(@, item)]

removeFromSyncQueue(s, localId, supabaseId) ==
    LET keep(item) ==
            ~ \/ (localId # 0 /\ item.localId = localId)
              \/ (supabaseId # 0 /\ item.supabaseId = supabaseId)
    IN  [s EXCEPT !.queue = SelectSeq(@, keep)]

-----------------------------------------------------------------------------
(* Helpers of the sync engine on the local store *)

(* A stamp that would leave syncedAt out: C14 rules it out *)
updateLocalWithSupabaseId_NoSyncedAt(s, localId, supabaseId, syncedAt) ==
    IF localId \in DOMAIN s.entries
    THEN [s EXCEPT !.entries[localId] = [@ EXCEPT !.supabaseId = supabaseId]]
    ELSE s

(* store.get(localId); when found, stamp supabaseId and syncedAt and put *)
updateLocalWithSupabaseId(s, localId, supabaseId, syncedAt) ==
    IF localId \in DOMAIN s.entries
    THEN [s EXCEPT !.entries[localId] = [@ EXCEPT !.supabaseId = supabaseId,
                                                  !.syncedAt = syncedAt]]
    ELSE s

(* Cursor over the whole store in key order: the first record carrying     *)
(* the supabaseId, 0 when there is none                                    *)
findLocalBySupabaseId(s, supabaseId) ==
    LET hits == {k \in DOMAIN s.entries : s.entries[k].supabaseId = supabaseId}
    IN  IF hits = {} THEN 0 ELSE Min(hits)

(* A local copy that would not take the row's synced_at: C19 rules it out *)
createLocalFromRemote_NoSyncedAt(s, entry, supabaseId, localUserId) ==
    DbAdd(s, localUserId, FieldsOf(entry), supabaseId, 0)

createLocalFromRemote(s, entry, supabaseId, localUserId) ==
    DbAdd(s, localUserId, FieldsOf(entry), supabaseId, entry.syncedAt)

updateLocalEntryFull(s, rec) == DbPut(s, rec)

(* A match by data that would take any record without supabaseId,        *)
(* whatever its date, amount, odometer and fuel                            *)
LocalToDelete_AnyUnsynced(localEntries, row) ==
    LET byId == {i \in DOMAIN localEntries : localEntries[i].supabaseId = row.id}
        byData == {i \in DOMAIN localEntries : localEntries[i].supabaseId = 0}
    IN  IF byId # {} THEN localEntries[Min(byId)].id
        ELSE IF byData # {} THEN localEntries[Min(byData)].id
        ELSE 0

(* localEntries.find(...) over the snapshot read before the loop:          *)
(* by supabaseId first, else the first record without supabaseId whose     *)
(* date, amountPaid, odometerReading and fuelFilled equal the row's        *)
LocalToDelete(localEntries, row) ==
    LET byId == {i \in DOMAIN localEntries : localEntries[i].supabaseId = row.id}
        byData == {i \in DOMAIN localEntries :
                      /\ localEntries[i].supabaseId = 0
                      /\ KeyOfEntry(localEntries[i]) = KeyOfRow(row)}
    IN  IF byId # {} THEN localEntries[Min(byId)].id
        ELSE IF byData # {} THEN localEntries[Min(byData)].id
        ELSE 0

RECURSIVE SyncDeletionsLoop(_, _, _, _)
SyncDeletionsLoop(s, localEntries, deletedEntries, i) ==
    IF i > Len(deletedEntries) THEN s
    ELSE LET id == LocalToDelete(localEntries, deletedEntries[i])
             s1 == IF id # 0 THEN DbDelete(s, id) ELSE s
         IN  SyncDeletionsLoop(s1, localEntries, deletedEntries, i + 1)

syncDeletionsToLocal(s, deletedEntries, localUserId) ==
    SyncDeletionsLoop(s, DbAllOfUser(s, localUserId), deletedEntries, 1)

RECURSIVE SyncToLocalLoop(_, _, _, _, _)
SyncToLocalLoop(s, remoteEntries, localUserId, deletedSet, i) ==
    IF i > Len(remoteEntries) THEN s
    ELSE LET remoteEntry == remoteEntries[i]
             localEntry == supabaseToLocal(remoteEntry, localUserId)
             existingLocal == findLocalBySupabaseId(s, remoteEntry.id)
             s1 == IF existingLocal # 0
                   THEN updateLocalEntryFull(s,
                            LocalRecord(existingLocal, localUserId, FieldsOf(localEntry),
                                        remoteEntry.id, remoteEntry.synced_at))
                   ELSE IF KeyOfRow(remoteEntry) \notin deletedSet
                        THEN createLocalFromRemote(s, localEntry, remoteEntry.id, localUserId)
                        ELSE s
         IN  SyncToLocalLoop(s1, remoteEntries, localUserId, deletedSet, i + 1)

(* deletedFetched: whether the select of the deleted rows' keys returned   *)
(* data; (deletedEntries || []) makes a failed select an empty set         *)
syncToLocal(s, remoteEntries, localUserId, supabaseUserId, deletedFetched) ==
    LET deletedSet == IF deletedFetched
                      THEN {KeyOfRow(s.remote[i]) : i \in RemoteIds(s, supabaseUserId, TRUE)}
                      ELSE {}
    IN  SyncToLocalLoop(s, remoteEntries, localUserId, deletedSet, 1)

RowsAt(s, ids) == [i \in 1..Len(ids) |-> s.remote[ids[i]]]

-----------------------------------------------------------------------------
(* The operations of the service.  Each takes the stores s, the answer     *)
(* `on` of isOnline() (navigator.onLine, which the environment sets        *)
(* between operations), its arguments, the fault plan F and the clock      *)
(* reading `now`, and yields                                               *)
(*   [s: the stores afterwards, threw: whether the promise rejected,       *)
(*    ret: the entries returned, log: the queue items replayed,            *)
(*    failed: the faults of F that were hit, path: where a list came from] *)

Result(s, threw, ret, log, failed, path) ==
    [s |-> s, threw |-> threw, ret |-> ret, log |-> log, failed |-> failed, path |-> path]

LocalFault == {<<"local", 0, "down">>}

(* A fallback that would list only the records already synced: C9 rules   *)
(* it out                                                                  *)
LocalList_SyncedOnly(s, localUserId, F, failed) ==
    IF LocalDown(F)
    THEN Result(s, TRUE, <<>>, <<>>, failed \cup LocalFault, "local")
    ELSE LET localEntries == SelectSeq(DbAllOfUser(s, localUserId),
                                       LAMBDA e : e.supabaseId # 0)
         IN  Result(s, FALSE,
                    [i \in 1..Len(localEntries) |-> LocalAsFuelEntry(localEntries[i])],
                    <<>>, failed, "local")

(* getAllEntries, lines 143-145: the local fallback *)
LocalList(s, localUserId, F, failed) ==
    IF LocalDown(F)
    THEN Result(s, TRUE, <<>>, <<>>, failed \cup LocalFault, "local")
    ELSE LET localEntries == SelectSeq(DbAllOfUser(s, localUserId),
                                       LAMBDA e : ~e.isDeleted)
         IN  Result(s, FALSE,
                    [i \in 1..Len(localEntries) |-> LocalAsFuelEntry(localEntries[i])],
                    <<>>, failed, "local")

getAllEntries(s, on, localUserId, supabaseUserId, F) ==
    IF on /\ supabaseUserId # 0
    THEN IF Outcome(F, "pull", 0) # "ok"
         THEN LocalList(s, localUserId, F, {<<"pull", 0, Outcome(F, "pull", 0)>>})
         ELSE LET data == RowsAt(s, ByDateDesc(s, RemoteIds(s, supabaseUserId, FALSE)))
                  deletedFails == SelectFails(F, "pull", 0, "deleted")
                  deletedData == IF deletedFails THEN <<>>
                                 ELSE RowsAt(s, SetToSeq(RemoteIds(s, supabaseUserId, TRUE)))
                  keysFail == SelectFails(F, "pull", 0, "deletedKeys")
                  anyDeleted == RemoteIds(s, supabaseUserId, TRUE) # {}
                  failed == IF anyDeleted
                            THEN {t \in {<<"pull", 0, "deleted">>, <<"pull", 0, "deletedKeys">>} : t \in F}
                            ELSE {}
                  touchesLocal == Len(deletedData) > 0 \/ Len(data) > 0
                  s1 == IF Len(deletedData) > 0
                        THEN syncDeletionsToLocal(s, deletedData, localUserId)
                        ELSE s
                  s2 == syncToLocal(s1, data, localUserId, supabaseUserId, ~keysFail)
              IN  IF touchesLocal /\ LocalDown(F)
                  THEN LocalList(s, localUserId, F,
                                 IF Len(deletedData) > 0 THEN failed \ {<<"pull", 0, "deletedKeys">>}
                                 ELSE failed)
                  ELSE Result(s2, FALSE,
                              [i \in 1..Len(data) |-> supabaseToLocal(data[i], localUserId)],
                              <<>>, failed, "remote")
    ELSE LocalList(s, localUserId, F, {})

(* The entry createEntry resolves to *)
createEntry(s, on, entry, localUserId, supabaseUserId, F, now) ==
    IF LocalDown(F) THEN Result(s, TRUE, <<>>, <<>>, LocalFault, "none")
    ELSE
    LET localId == s.nextId
        s1 == DbAdd(s, localUserId, entry, 0, 0)
        savedEntry == FuelEntry(localId, localUserId, entry, 0, 0, 0, FALSE)
        item == QueueItem("create", localId, 0, <<entry>>, now)
        o == Outcome(F, "remote", 0)
        supabaseData == localToSupabase(localId, entry, supabaseUserId, now)
        inserted == RemoteInsert(s1, supabaseData)
        dataId == NewRowId(s1)
    IN  IF on /\ supabaseUserId # 0
        THEN CASE o = "ok" ->
                    Result(updateLocalWithSupabaseId(inserted, localId, dataId, now), FALSE,
                           <<[savedEntry EXCEPT !.supabaseId = dataId, !.syncedAt = now]>>,
                           <<>>, {}, "none")
               [] o = "err" ->
                    Result(addToSyncQueue(s1, item), FALSE, <<savedEntry>>, <<>>,
                           {<<"remote", 0, "err">>}, "none")
               [] o = "lost" ->
                    Result(addToSyncQueue(inserted, item), FALSE, <<savedEntry>>, <<>>,
                           {<<"remote", 0, "lost">>}, "none")
        ELSE IF supabaseUserId # 0
        THEN Result(addToSyncQueue(s1, item), FALSE, <<savedEntry>>, <<>>, {}, "none")
        ELSE Result(s1, FALSE, <<savedEntry>>, <<>>, {}, "none")

(* An updateEntry that would queue its item under the local id alone:     *)
(* C15 rules it out                                                        *)
updateEntry_QueuesByLocalId(s, on, entry, supabaseUserId, F, now) ==
    IF LocalDown(F) THEN Result(s, TRUE, <<>>, <<>>, LocalFault, "none")
    ELSE
    LET s1 == DbPut(s, LocalRecord(entry.id, entry.userId, FieldsOf(entry), 0, 0))
        item == QueueItem("update", entry.id, 0, <<FieldsOf(entry)>>, now)
        o == Outcome(F, "remote", 0)
        updated == RemoteUpdateFields(s1, entry.supabaseId, supabaseUserId, FieldsOf(entry))
    IN  IF on /\ supabaseUserId # 0 /\ entry.supabaseId # 0
        THEN IF o = "err"
             THEN Result(addToSyncQueue(s1, item), FALSE, <<>>, <<>>,
                         {<<"remote", 0, "err">>}, "none")
             ELSE Result(updated, FALSE, <<>>, <<>>, {}, "none")
        ELSE IF supabaseUserId # 0 /\ entry.supabaseId # 0
        THEN Result(addToSyncQueue(s1, item), FALSE, <<>>, <<>>, {}, "none")
        ELSE Result(s1, FALSE, <<>>, <<>>, {}, "none")

(* An updateEntry that would let the remote error reach its caller: C8    *)
(* rules it out                                                            *)
updateEntry_RemoteErrorRejects(s, on, entry, supabaseUserId, F, now) ==
    IF LocalDown(F) THEN Result(s, TRUE, <<>>, <<>>, LocalFault, "none")
    ELSE
    LET s1 == DbPut(s, LocalRecord(entry.id, entry.userId, FieldsOf(entry), 0, 0))
        item == QueueItem("update", entry.id, entry.supabaseId, <<FieldsOf(entry)>>, now)
        o == Outcome(F, "remote", 0)
        updated == RemoteUpdateFields(s1, entry.supabaseId, supabaseUserId, FieldsOf(entry))
    IN  IF on /\ supabaseUserId # 0 /\ entry.supabaseId # 0
        THEN IF o = "err"
             THEN Result(s1, TRUE, <<>>, <<>>, {<<"remote", 0, "err">>}, "none")
             ELSE Result(updated, FALSE, <<>>, <<>>, {}, "none")
        ELSE IF supabaseUserId # 0 /\ entry.supabaseId # 0
        THEN Result(addToSyncQueue(s1, item), FALSE, <<>>, <<>>, {}, "none")
        ELSE Result(s1, FALSE, <<>>, <<>>, {}, "none")

updateEntry(s, on, entry, supabaseUserId, F, now) ==
    IF LocalDown(F) THEN Result(s, TRUE, <<>>, <<>>, LocalFault, "none")
    ELSE
    LET s1 == DbPut(s, LocalRecord(entry.id, entry.userId, FieldsOf(entry), 0, 0))
        item == QueueItem("update", entry.id, entry.supabaseId, <<FieldsOf(entry)>>, now)
        o == Outcome(F, "remote", 0)
        updated == RemoteUpdateFields(s1, entry.supabaseId, supabaseUserId, FieldsOf(entry))
    IN  IF on /\ supabaseUserId # 0 /\ entry.supabaseId # 0
        THEN IF o = "err"
             THEN Result(addToSyncQueue(s1, item), FALSE, <<>>, <<>>,
                         {<<"remote", 0, "err">>}, "none")
             ELSE Result(updated, FALSE, <<>>, <<>>, {}, "none")
        ELSE IF supabaseUserId # 0 /\ entry.supabaseId # 0
        THEN Result(addToSyncQueue(s1, item), FALSE, <<>>, <<>>, {}, "none")
        ELSE Result(s1, FALSE, <<>>, <<>>, {}, "none")

(* A delete that would take the record's queued create out of the queue *)
deleteEntry_DropsCreate(s, on, id, supabaseId, supabaseUserId, F, now) ==
    IF LocalDown(F) THEN Result(s, TRUE, <<>>, <<>>, LocalFault, "none")
    ELSE
    LET s1 == [DbDelete(s, id) EXCEPT
                  !.queue = SelectSeq(@, LAMBDA q : ~(q.type = "create" /\ q.localId = id))]
        item == QueueItem("delete", id, supabaseId, <<>>, now)
        o == Outcome(F, "remote", 0)
        deleted == RemoteSoftDelete(s1, supabaseId, supabaseUserId)
    IN  IF on /\ supabaseUserId # 0 /\ supabaseId # 0
        THEN IF o = "err"
             THEN Result(addToSyncQueue(s1, item), FALSE, <<>>, <<>>,
                         {<<"remote", 0, "err">>}, "none")
             ELSE Result(deleted, FALSE, <<>>, <<>>, {}, "none")
        ELSE IF supabaseUserId # 0 /\ supabaseId # 0
        THEN Result(addToSyncQueue(s1, item), FALSE, <<>>, <<>>, {}, "none")
        ELSE Result(s1, FALSE, <<>>, <<>>, {}, "none")

deleteEntry(s, on, id, supabaseId, supabaseUserId, F, now) ==
    IF LocalDown(F) THEN Result(s, TRUE, <<>>, <<>>, LocalFault, "none")
    ELSE
    LET s1 == DbDelete(s, id)
        item == QueueItem("delete", id, supabaseId, <<>>, now)
        o == Outcome(F, "remote", 0)
        deleted == RemoteSoftDelete(s1, supabaseId, supabaseUserId)
    IN  IF on /\ supabaseUserId # 0 /\ supabaseId # 0
        THEN IF o = "err"
             THEN Result(addToSyncQueue(s1, item), FALSE, <<>>, <<>>,
                         {<<"remote", 0, "err">>}, "none")
             ELSE Result(deleted, FALSE, <<>>, <<>>, {}, "none")
        ELSE IF supabaseUserId # 0 /\ supabaseId # 0
        THEN Result(addToSyncQueue(s1, item), FALSE, <<>>, <<>>, {}, "none")
        ELSE Result(s1, FALSE, <<>>, <<>>, {}, "none")

(* One pass of the loop body of processSyncQueue (lines 499-562) for the   *)
(* i-th item of the snapshot: the stores afterwards, whether the replay    *)
(* reached removeFromSyncQueue, and the fault it hit                       *)
ReplayItem(s, item, i, localUserId, supabaseUserId, F, now) ==
    LET o == Outcome(F, "queue", i)
        hit == IF o = "ok" THEN {} ELSE {<<"queue", i, o>>}
        done(s1) == [s |-> removeFromSyncQueue(s1, item.localId, item.supabaseId),
                     ok |-> TRUE, failed |-> {}]
        thrown(s1, f) == [s |-> s1, ok |-> FALSE, failed |-> f]
    IN  CASE item.type = "create" ->
               IF Len(item.data) > 0 /\ item.localId # 0
               THEN LET supabaseData == localToSupabase(item.localId, item.data[1],
                                                        supabaseUserId, now)
                        inserted == RemoteInsert(s, supabaseData)
                    IN  CASE o = "err" -> thrown(s, hit)
                          [] o = "lost" -> thrown(inserted, hit)
                          [] o = "ok" ->
                               IF LocalDown(F) THEN thrown(inserted, LocalFault)
                               ELSE done(updateLocalWithSupabaseId(inserted, item.localId,
                                                                   NewRowId(s), now))
               ELSE done(s)
          [] item.type = "update" ->
               IF Len(item.data) > 0 /\ item.supabaseId # 0
               THEN LET updated == RemoteUpdateFields(s, item.supabaseId, supabaseUserId,
                                                      item.data[1])
                    IN  IF o = "err" THEN thrown(s, hit) ELSE done(updated)
               ELSE done(s)
          [] item.type = "delete" ->
               IF item.supabaseId # 0
               THEN LET deleted == RemoteSoftDelete(s, item.supabaseId, supabaseUserId)
                    IN  IF o = "err" THEN thrown(s, hit) ELSE done(deleted)
               ELSE done(s)

(* A drain that would stop at the first failed replay: C5 rules it out *)
RECURSIVE DrainLoop_AbortOnFailure(_, _, _, _, _, _, _, _, _)
DrainLoop_AbortOnFailure(s, snapshot, i, localUserId, supabaseUserId, F, now, log, failed) ==
    IF i > Len(snapshot) THEN Result(s, FALSE, <<>>, log, failed, "none")
    ELSE LET r == ReplayItem(s, snapshot[i], i, localUserId, supabaseUserId, F, now)
             log1 == Append(log, [index |-> i, item |-> snapshot[i], ok |-> r.ok])
         IN  IF ~r.ok THEN Result(r.s, FALSE, <<>>, log1, failed \cup r.failed, "none")
             ELSE DrainLoop_AbortOnFailure(r.s, snapshot, i + 1, localUserId, supabaseUserId,
                                           F, now, log1, failed \cup r.failed)

(* for (const item of queue) over the snapshot read at line 493 *)
RECURSIVE DrainLoop(_, _, _, _, _, _, _, _, _)
DrainLoop(s, snapshot, i, localUserId, supabaseUserId, F, now, log, failed) ==
    IF i > Len(snapshot) THEN Result(s, FALSE, <<>>, log, failed, "none")
    ELSE LET r == ReplayItem(s, snapshot[i], i, localUserId, supabaseUserId, F, now)
         IN  DrainLoop(r.s, snapshot, i + 1, localUserId, supabaseUserId, F, now,
                       Append(log, [index |-> i, item |-> snapshot[i], ok |-> r.ok]),
                       failed \cup r.failed)

processSyncQueue(s, on, localUserId, supabaseUserId, F, now) ==
    IF ~on THEN Result(s, FALSE, <<>>, <<>>, {}, "none")
    ELSE IF Len(s.queue) = 0 THEN Result(s, FALSE, <<>>, <<>>, {}, "none")
    ELSE DrainLoop(s, s.queue, 1, localUserId, supabaseUserId, F, now, <<>>, {})

(* The records pushUnsyncedEntries reads at lines 590-602 *)
UnsyncedEntries(s, localUserId) ==
    SelectSeq(DbAllOfUser(s, localUserId), LAMBDA e : e.supabaseId = 0 /\ ~e.isDeleted)

(* One pass of the loop body of pushUnsyncedEntries (lines 605-663) *)
PushEntry(s, entry, supabaseUserId, F, now) ==
    LET key == KeyOfEntry(entry)
        delFails == SelectFails(F, "push", entry.id, "deleted")
        deletedData == IF delFails THEN 0 ELSE MaybeSingleByKey(s, supabaseUserId, key, TRUE)
        exFails == SelectFails(F, "push", entry.id, "existing")
        existingData == IF exFails THEN 0 ELSE MaybeSingleByKey(s, supabaseUserId, key, FALSE)
        o == Outcome(F, "push", entry.id)
        supabaseData == localToSupabase(entry.id, FieldsOf(entry), supabaseUserId, now)
        inserted == RemoteInsert(s, supabaseData)
        f1 == IF delFails /\ MaybeSingleByKey(s, supabaseUserId, key, TRUE) # 0
              THEN {<<"push", entry.id, "deleted">>} ELSE {}
        f2 == f1 \cup (IF exFails /\ MaybeSingleByKey(s, supabaseUserId, key, FALSE) # 0
                       THEN {<<"push", entry.id, "existing">>} ELSE {})
    IN  IF deletedData # 0
        THEN [s |-> IF entry.id # 0 THEN DbDelete(s, entry.id) ELSE s, failed |-> f1]
        ELSE IF existingData # 0
        THEN [s |-> IF entry.id # 0
                    THEN updateLocalWithSupabaseId(s, entry.id, existingData,
                                                   s.remote[existingData].synced_at)
                    ELSE s,
              failed |-> f2]
        ELSE CASE o = "err" -> [s |-> s, failed |-> f2 \cup {<<"push", entry.id, "err">>}]
               [] o = "lost" -> [s |-> inserted, failed |-> f2 \cup {<<"push", entry.id, "lost">>}]
               [] o = "ok" ->
                    [s |-> IF entry.id # 0
                           THEN updateLocalWithSupabaseId(inserted, entry.id, NewRowId(s), now)
                           ELSE inserted,
                     failed |-> f2]

RECURSIVE PushLoop(_, _, _, _, _, _, _)
PushLoop(s, unsyncedEntries, i, supabaseUserId, F, now, failed) ==
    IF i > Len(unsyncedEntries) THEN Result(s, FALSE, <<>>, <<>>, failed, "none")
    ELSE LET r == PushEntry(s, unsyncedEntries[i], supabaseUserId, F, now)
         IN  PushLoop(r.s, unsyncedEntries, i + 1, supabaseUserId, F, now, failed \cup r.failed)

(* A push phase that would leave the unsynced records alone: C11 rules    *)
(* it out                                                                  *)
pushUnsyncedEntries_Skips(s, localUserId, supabaseUserId, F, now) ==
    IF LocalDown(F) THEN Result(s, TRUE, <<>>, <<>>, LocalFault, "none")
    ELSE Result(s, FALSE, <<>>, <<>>, {}, "none")

pushUnsyncedEntries(s, localUserId, supabaseUserId, F, now) ==
    IF LocalDown(F) THEN Result(s, TRUE, <<>>, <<>>, LocalFault, "none")
    ELSE PushLoop(s, UnsyncedEntries(s, localUserId), 1, supabaseUserId, F, now, {})

(* A fullSync without the isOnline() guard of line 571: C32 rules it out *)
fullSync_IgnoresOffline(s, on, localUserId, supabaseUserId, F, now) ==
    LET drained == processSyncQueue(s, TRUE, localUserId, supabaseUserId, F, now)
        pushed == pushUnsyncedEntries(drained.s, localUserId, supabaseUserId, F, now)
        pulled == getAllEntries(pushed.s, TRUE, localUserId, supabaseUserId, F)
    IN  IF pushed.threw
        THEN Result(pushed.s, TRUE, <<>>, drained.log,
                    drained.failed \cup pushed.failed, "none")
        ELSE Result(pulled.s, pulled.threw, <<>>, drained.log,
                    drained.failed \cup pushed.failed \cup pulled.failed, pulled.path)

fullSync(s, on, localUserId, supabaseUserId, F, now) ==
    IF ~on THEN Result(s, FALSE, <<>>, <<>>, {}, "none")
    ELSE LET drained == processSyncQueue(s, on, localUserId, supabaseUserId, F, now)
             pushed == pushUnsyncedEntries(drained.s, localUserId, supabaseUserId, F, now)
             pulled == getAllEntries(pushed.s, on, localUserId, supabaseUserId, F)
         IN  IF pushed.threw
             THEN Result(pushed.s, TRUE, <<>>, drained.log,
                         drained.failed \cup pushed.failed, "none")
             ELSE Result(pulled.s, pulled.threw, <<>>, drained.log,
                         drained.failed \cup pushed.failed \cup pulled.failed, pulled.path)

-----------------------------------------------------------------------------
(* State machine *)

clearLocalEntries(s, localUserId, F) ==
    IF LocalDown(F) THEN Result(s, TRUE, <<>>, <<>>, LocalFault, "none")
    ELSE Result([DbClearAll(s, localUserId) EXCEPT !.queue = <<>>], FALSE, <<>>, <<>>, {}, "none")

(* localStorage refuses the owner map (getItem, JSON.parse or setItem throws) *)
MapFault == {<<"map", 0, "down">>}

(* The owner map is read; a remote id it does not hold gets Date.now() as   *)
(* its local id and the map is written back.  When localStorage throws,    *)
(* the catch returns Date.now() and the map stays as it was.               *)
getOrCreateLocalUserId(map, supabaseId, F, t) ==
    IF MapFault \subseteq F THEN [id |-> t, map |-> map]
    ELSE IF supabaseId \in DOMAIN map THEN [id |-> map[supabaseId], map |-> map]
    ELSE [id |-> t, map |-> (supabaseId :> t) @@ map]

NoFields ==
    [date |-> 0, amountPaid |-> 0, odometerReading |-> 0, fuelFilled |-> 0,
     fuelStation |-> ""]

NoEntry == FuelEntry(0, 0, NoFields, 0, 0, 0, FALSE)

EmptyStore == [k \in {} |-> NoEntry]

(* type User of the AuthProvider: the local id and the remote id *)
User(id, supabaseId) == [id |-> id, supabaseId |-> supabaseId]

(* authState 'unauthenticated': user is null *)
NoUser == User(0, 0)

(* No service call in progress *)
NoCall ==
    [pc |-> "idle", op |-> "none", on |-> FALSE, arg |-> NoEntry, F |-> {},
     s0 |-> [entries |-> EmptyStore, nextId |-> 1, remote |-> <<>>, queue |-> <<>>]]

(* What an operation leaves in `last`: its name, what isOnline() answered, *)
(* the queue it started with, its argument, its result, and `prev`, the    *)
(* same of the operation before it                                         *)
Summary(op, on, arg, r) ==
    [op |-> op, online |-> on, arg |-> IF r.threw THEN NoEntry ELSE arg,
     threw |-> r.threw, ret |-> r.ret]

Record(op, on, arg, r, before, prev) ==
    [op |-> op, online |-> on, arg |-> IF r.threw THEN NoEntry ELSE arg,
     before |-> before, threw |-> r.threw, ret |-> r.ret, log |-> r.log,
     failed |-> r.failed, path |-> r.path, prev |-> prev]

Did(op, on, arg, r) ==
    Record(op, on, arg, r, queue, [op |-> last.op, online |-> last.online, arg |-> last.arg,
                                   threw |-> last.threw, ret |-> last.ret])

(* F is a plan the operation met in full: every fault of it was hit *)
Commit(r, F) ==
    /\ r.failed = F
    /\ faults' = faults + Cardinality(F)
    /\ entries' = r.s.entries
    /\ nextId' = r.s.nextId
    /\ remote' = r.s.remote
    /\ queue' = r.s.queue

Tick ==
    /\ clock < MaxOps
    /\ clock' = clock + 1
    /\ UNCHANGED <<call, auth, who, tasks, authState>>

now == clock + 1

Init ==
    /\ entries = EmptyStore
    /\ nextId = 1
    /\ remote = <<>>
    /\ queue = <<>>
    /\ view = {}
    /\ clock = 0
    /\ foreign = {}
    /\ faults = 0
    /\ call = NoCall
    /\ auth = [user |-> User(OwnerLocal, OwnerRemote), map |-> (OwnerRemote :> OwnerLocal)]
    /\ who = <<>>
    /\ tasks = <<>>
    /\ authState = [status |-> "authenticated", sessionKey |-> FALSE]
    /\ last = Record("init", TRUE, NoEntry, Result(StoreState, FALSE, <<>>, <<>>, {}, "none"), <<>>,
                     Summary("init", TRUE, NoEntry, Result(StoreState, FALSE, <<>>, <<>>, {}, "none")))

InsertFaults(on) == IF on THEN {<<"remote", 0, "err">>, <<"remote", 0, "lost">>} ELSE {}

WriteFaults(on) == IF on THEN {<<"remote", 0, "err">>} ELSE {}

(* App.addEntry -> fuelService.createEntry, the entry drawn from D *)
AppAddEntry(D) ==
    /\ \E on \in BOOLEAN : \E entry \in D, F \in Plans(LocalFault \cup InsertFaults(on)) :
          LET r == createEntry(StoreState, on, entry, OwnerLocal, OwnerRemote, F, now)
          IN  /\ Commit(r, F)
              /\ view' = IF r.threw THEN view ELSE view \cup {r.ret[1]}
              /\ last' = Did("createEntry", on, FuelEntry(0, OwnerLocal, entry, 0, 0, 0, FALSE), r)
    /\ UNCHANGED foreign

(* App.updateEntry -> fuelService.updateEntry.  The entry is one the       *)
(* caller holds, with edited fields drawn from D: rebuilt as               *)
(* {id, userId, fields} by the edit form (handleEditSubmit), or passed as  *)
(* held (keep).                                                            *)
AppUpdateEntry(D) ==
    /\ \E on \in BOOLEAN : \E held \in view, f \in D, keep \in BOOLEAN,
          F \in Plans(LocalFault \cup WriteFaults(on)) :
          /\ held.id # 0
          /\ keep => held.supabaseId # 0
          /\ LET entry == IF keep
                          THEN FuelEntry(held.id, held.userId, f, held.supabaseId,
                                         held.supabaseUserId, held.syncedAt, held.isDeleted)
                          ELSE FuelEntry(held.id, held.userId, f, 0, 0, 0, FALSE)
                 r == updateEntry(StoreState, on, entry, OwnerRemote, F, now)
             IN  /\ Commit(r, F)
                 /\ view' = IF r.threw THEN view
                            ELSE {IF e.id = entry.id THEN entry ELSE e : e \in view}
                 /\ last' = Did("updateEntry", on, entry, r)
    /\ UNCHANGED foreign

(* App.deleteEntry -> fuelService.deleteEntry *)
AppDeleteEntry ==
    /\ \E on \in BOOLEAN : \E held \in view, F \in Plans(LocalFault \cup WriteFaults(on)) :
          /\ held.id # 0
          /\ LET r == deleteEntry(StoreState, on, held.id, held.supabaseId, OwnerRemote, F, now)
             IN  /\ Commit(r, F)
                 /\ view' = IF r.threw THEN view ELSE {e \in view : e.id # held.id}
                 /\ last' = Did("deleteEntry", on, held, r)
    /\ UNCHANGED foreign

PullFaults(on) ==
    IF on
    THEN {<<"pull", 0, "err">>, <<"pull", 0, "deleted">>, <<"pull", 0, "deletedKeys">>}
    ELSE {}

(* App.loadEntries -> fuelService.getAllEntries *)
AppLoadEntries ==
    /\ \E on \in BOOLEAN : \E supabaseUserId \in {0, OwnerRemote},
          F \in Plans(LocalFault \cup PullFaults(on)) :
          /\ supabaseUserId = 0 => F = {}
          /\ LET r == getAllEntries(StoreState, on, OwnerLocal, supabaseUserId, F)
             IN  /\ Commit(r, F)
                 /\ view' = IF r.threw THEN view ELSE Range(r.ret)
                 /\ last' = Did("getAllEntries", on,
                                [NoEntry EXCEPT !.supabaseUserId = supabaseUserId], r)
    /\ UNCHANGED foreign

SyncFaults(on) ==
    IF on
    THEN LocalFault \cup PullFaults(on)
         \cup {<<"queue", i, "err">> : i \in 1..Len(queue)}
         \cup {<<"queue", i, "lost">> : i \in {j \in 1..Len(queue) : queue[j].type = "create"}}
         \cup {<<"push", id, k>> : id \in {k \in DOMAIN entries : entries[k].supabaseId = 0},
                                   k \in {"deleted", "existing", "err", "lost"}}
    ELSE {}

(* AuthProvider -> fuelService.fullSync *)
AuthFullSync ==
    /\ \E on \in BOOLEAN : \E F \in Plans(SyncFaults(on)) :
          LET r == fullSync(StoreState, on, OwnerLocal, OwnerRemote, F, now)
          IN  /\ Commit(r, F)
              /\ last' = Did("fullSync", on, NoEntry, r)
    /\ UNCHANGED <<view, foreign>>

(* Another device of the same owner, running the same service online:      *)
(* its createEntry inserts a row                                           *)
OtherCreate(D) ==
    /\ Cardinality(foreign) < MaxForeign
    /\ foreign' = foreign \cup {NewRowId(StoreState)}
    /\ \E entry \in D, localId \in ForeignLocalIds :
          LET r == Result(RemoteInsert(StoreState, localToSupabase(localId, entry, OwnerRemote, now)),
                          FALSE, <<>>, <<>>, {}, "none")
          IN  /\ Commit(r, {})
              /\ last' = Did("otherDeviceCreate", TRUE, NoEntry, r)
    /\ UNCHANGED view

(* ... and its deleteEntry soft-deletes a row *)
OtherDelete ==
    /\ \E id \in RemoteIds(StoreState, OwnerRemote, FALSE) :
          LET r == Result(RemoteSoftDelete(StoreState, id, OwnerRemote),
                          FALSE, <<>>, <<>>, {}, "none")
          IN  /\ Commit(r, {})
              /\ last' = Did("otherDeviceDelete", TRUE, NoEntry, r)
    /\ UNCHANGED <<view, foreign>>

(* Runs of at most MaxOps operations on the entries of Drafts *)
CreateEntry == Tick /\ AppAddEntry(Drafts)

UpdateEntry == Tick /\ AppUpdateEntry(Drafts)

DeleteEntry == Tick /\ AppDeleteEntry

GetAllEntries == Tick /\ AppLoadEntries

FullSync == Tick /\ AuthFullSync

OtherDeviceCreate == Tick /\ OtherCreate(Drafts)

OtherDeviceDelete == Tick /\ OtherDelete

Next ==
    \/ CreateEntry
    \/ UpdateEntry
    \/ DeleteEntry
    \/ GetAllEntries
    \/ FullSync
    \/ OtherDeviceCreate
    \/ OtherDeviceDelete

Spec == Init /\ [][Next]_vars

(* Longer runs, of at most DeepOps operations, in which every entry the    *)
(* user or the other device enters is the same fill-up                     *)
DeepTick ==
    /\ clock < DeepOps
    /\ clock' = clock + 1
    /\ UNCHANGED <<call, auth, who, tasks, authState>>

DeepCreateEntry == DeepTick /\ AppAddEntry(DeepDrafts)

DeepUpdateEntry == DeepTick /\ AppUpdateEntry(DeepDrafts)

DeepDeleteEntry == DeepTick /\ AppDeleteEntry

DeepGetAllEntries == DeepTick /\ AppLoadEntries

DeepFullSync == DeepTick /\ AuthFullSync

DeepOtherDeviceCreate == DeepTick /\ OtherCreate(DeepDrafts)

DeepOtherDeviceDelete == DeepTick /\ OtherDelete

DeepNext ==
    \/ DeepCreateEntry
    \/ DeepUpdateEntry
    \/ DeepDeleteEntry
    \/ DeepGetAllEntries
    \/ DeepFullSync
    \/ DeepOtherDeviceCreate
    \/ DeepOtherDeviceDelete

SpecDeep == Init /\ [][DeepNext]_vars

(* The longest runs, of at most OnlineOps operations: the device is online *)
(* at every operation and no request fails                                 *)
OnlineTick ==
    /\ clock < OnlineOps
    /\ clock' = clock + 1
    /\ UNCHANGED <<call, auth, who, tasks, authState>>

Undisturbed == last'.online /\ last'.failed = {}

OnlineCreateEntry == OnlineTick /\ AppAddEntry(DeepDrafts) /\ Undisturbed

OnlineUpdateEntry == OnlineTick /\ AppUpdateEntry(DeepDrafts) /\ Undisturbed

OnlineDeleteEntry == OnlineTick /\ AppDeleteEntry /\ Undisturbed

OnlineGetAllEntries == OnlineTick /\ AppLoadEntries /\ Undisturbed

OnlineFullSync == OnlineTick /\ AuthFullSync /\ Undisturbed

OnlineOtherDeviceCreate == OnlineTick /\ OtherCreate(DeepDrafts) /\ Undisturbed

OnlineOtherDeviceDelete == OnlineTick /\ OtherDelete /\ Undisturbed

OnlineNext ==
    \/ OnlineCreateEntry
    \/ OnlineUpdateEntry
    \/ OnlineDeleteEntry
    \/ OnlineGetAllEntries
    \/ OnlineFullSync
    \/ OnlineOtherDeviceCreate
    \/ OnlineOtherDeviceDelete

SpecOnline == Init /\ [][OnlineNext]_vars

(* Sessions: users sign in, work, lose their session or sign out, on one   *)
(* device.  Runs of at most SessionOps operations and auth events.         *)
SessionTick ==
    /\ clock < SessionOps
    /\ clock' = clock + 1
    /\ UNCHANGED <<call, foreign, tasks, authState>>

NoMap == [R \in {} |-> 0]

SessionInit ==
    /\ entries = EmptyStore
    /\ nextId = 1
    /\ remote = <<>>
    /\ queue = <<>>
    /\ view = {}
    /\ clock = 0
    /\ foreign = {}
    /\ faults = 0
    /\ call = NoCall
    /\ auth = [user |-> NoUser, map |-> NoMap]
    /\ who = <<>>
    /\ tasks = <<>>
    /\ authState = [status |-> "unauthenticated", sessionKey |-> FALSE]
    /\ last = Record("init", TRUE, NoEntry, Result(StoreState, FALSE, <<>>, <<>>, {}, "none"), <<>>,
                     Summary("init", TRUE, NoEntry, Result(StoreState, FALSE, <<>>, <<>>, {}, "none")))

(* What an operation of the session leaves in the stores *)
SessionCommit(r, F) ==
    /\ r.failed = F \ MapFault
    /\ faults' = faults + Cardinality(F)
    /\ entries' = r.s.entries
    /\ nextId' = r.s.nextId
    /\ remote' = r.s.remote
    /\ queue' = r.s.queue

(* The arguments of a call made for a user: its local and its remote id *)
ForUser(u) == [NoEntry EXCEPT !.userId = u.id, !.supabaseUserId = u.supabaseId]

(* onAuthStateChange, event SIGNED_IN: the user of the session becomes the *)
(* signed-in user and fullSync runs for it *)
SignedIn ==
    /\ SessionTick
    /\ \E R \in Owners, on \in BOOLEAN : \E F \in Plans(SyncFaults(on) \cup MapFault) :
          /\ auth.user = NoUser \/ auth.user.supabaseId = R
          /\ LET g == getOrCreateLocalUserId(auth.map, R, F, now)
                 r == fullSync(StoreState, on, g.id, R, F, now)
             IN  /\ SessionCommit(r, F)
                 /\ auth' = [user |-> User(g.id, R), map |-> g.map]
                 /\ last' = Did("fullSync", on, ForUser(User(g.id, R)), r)
                 /\ who' = Append(who, R)
    /\ UNCHANGED view

(* onAuthStateChange, event TOKEN_REFRESHED *)
TokenRefreshed ==
    /\ SessionTick
    /\ auth.user # NoUser
    /\ \E F \in Plans(MapFault) :
          LET g == getOrCreateLocalUserId(auth.map, auth.user.supabaseId, F, now)
              r == Result(StoreState, FALSE, <<>>, <<>>, {}, "none")
          IN  /\ SessionCommit(r, F)
              /\ auth' = [user |-> User(g.id, auth.user.supabaseId), map |-> g.map]
              /\ last' = Did("tokenRefreshed", TRUE, ForUser(User(g.id, auth.user.supabaseId)), r)
    /\ who' = Append(who, auth.user.supabaseId)
    /\ UNCHANGED view

(* onAuthStateChange, event SIGNED_OUT (the session expired or was         *)
(* revoked): the user is dropped, the stores stay as they are; the App     *)
(* empties its list *)
SessionExpired ==
    /\ SessionTick
    /\ auth.user # NoUser
    /\ auth' = [auth EXCEPT !.user = NoUser]
    /\ view' = {}
    /\ last' = Did("signedOut", TRUE, ForUser(auth.user),
                   Result(StoreState, FALSE, <<>>, <<>>, {}, "none"))
    /\ who' = Append(who, auth.user.supabaseId)
    /\ UNCHANGED <<entries, nextId, remote, queue, faults>>

(* signOut: clearLocalEntries(user.id), then the user is dropped, also     *)
(* when clearing threw *)
SignOut ==
    /\ SessionTick
    /\ auth.user # NoUser
    /\ \E F \in Plans(LocalFault) :
          LET r == clearLocalEntries(StoreState, auth.user.id, F)
          IN  /\ SessionCommit(r, F)
              /\ last' = Record("signOut", TRUE, ForUser(auth.user), [r EXCEPT !.threw = FALSE],
                                queue, [op |-> last.op, online |-> last.online, arg |-> last.arg,
                                        threw |-> last.threw, ret |-> last.ret])
    /\ auth' = [auth EXCEPT !.user = NoUser]
    /\ view' = {}
    /\ who' = Append(who, auth.user.supabaseId)

(* App.addEntry, updateEntry, deleteEntry and loadEntries of the signed-in *)
(* user: they pass user.id and user.supabaseId *)
SessionAddEntry ==
    /\ SessionTick
    /\ auth.user # NoUser
    /\ \E on \in BOOLEAN : \E entry \in DeepDrafts, F \in Plans(LocalFault \cup InsertFaults(on)) :
          LET r == createEntry(StoreState, on, entry, auth.user.id, auth.user.supabaseId, F, now)
          IN  /\ SessionCommit(r, F)
              /\ view' = IF r.threw THEN view ELSE view \cup {r.ret[1]}
              /\ last' = Did("createEntry", on,
                             FuelEntry(0, auth.user.id, entry, 0, 0, 0, FALSE), r)
    /\ who' = Append(who, auth.user.supabaseId)
    /\ UNCHANGED auth

SessionUpdateEntry ==
    /\ SessionTick
    /\ auth.user # NoUser
    /\ \E on \in BOOLEAN : \E held \in view, f \in DeepDrafts, keep \in BOOLEAN,
          F \in Plans(LocalFault \cup WriteFaults(on)) :
          /\ held.id # 0
          /\ keep => held.supabaseId # 0
          /\ LET entry == IF keep
                          THEN FuelEntry(held.id, held.userId, f, held.supabaseId,
                                         held.supabaseUserId, held.syncedAt, held.isDeleted)
                          ELSE FuelEntry(held.id, held.userId, f, 0, 0, 0, FALSE)
                 r == updateEntry(StoreState, on, entry, auth.user.supabaseId, F, now)
             IN  /\ SessionCommit(r, F)
                 /\ view' = IF r.threw THEN view
                            ELSE {IF e.id = entry.id THEN entry ELSE e : e \in view}
                 /\ last' = Did("updateEntry", on, entry, r)
    /\ who' = Append(who, auth.user.supabaseId)
    /\ UNCHANGED auth

SessionDeleteEntry ==
    /\ SessionTick
    /\ auth.user # NoUser
    /\ \E on \in BOOLEAN : \E held \in view, F \in Plans(LocalFault \cup WriteFaults(on)) :
          /\ held.id # 0
          /\ LET r == deleteEntry(StoreState, on, held.id, held.supabaseId,
                                  auth.user.supabaseId, F, now)
             IN  /\ SessionCommit(r, F)
                 /\ view' = IF r.threw THEN view ELSE {e \in view : e.id # held.id}
                 /\ last' = Did("deleteEntry", on, held, r)
    /\ who' = Append(who, auth.user.supabaseId)
    /\ UNCHANGED auth

SessionLoadEntries ==
    /\ SessionTick
    /\ auth.user # NoUser
    /\ \E on \in BOOLEAN : \E F \in Plans(LocalFault \cup PullFaults(on)) :
          LET r == getAllEntries(StoreState, on, auth.user.id, auth.user.supabaseId, F)
          IN  /\ SessionCommit(r, F)
              /\ view' = IF r.threw THEN view ELSE Range(r.ret)
              /\ last' = Did("getAllEntries", on, ForUser(auth.user), r)
    /\ who' = Append(who, auth.user.supabaseId)
    /\ UNCHANGED auth

SessionNext ==
    \/ SignedIn
    \/ TokenRefreshed
    \/ SessionExpired
    \/ SignOut
    \/ SessionAddEntry
    \/ SessionUpdateEntry
    \/ SessionDeleteEntry
    \/ SessionLoadEntries

SpecSession == SessionInit /\ [][SessionNext]_vars

(* The record mapper on its own: an entry is mapped to a row draft, the  *)
(* table gives the row an id, and the row is mapped back                   *)
MapperFields ==
    [date : {18, 19}, amountPaid : {0, 800}, odometerReading : {10250, 10600},
     fuelFilled : {8, 30}, fuelStation : {"", "Shell"}]

(* entry.id: absent (0) or a key of the store *)
MapperIds == {0, 1, 2}

MapRoundTrip ==
    /\ \E id \in MapperIds, f \in MapperFields, R \in Owners, u \in Owners, t \in {1, 2} :
          LET entry == FuelEntry(id, u, f, 0, 0, 0, FALSE)
              row == RowOf(localToSupabase(entry.id, FieldsOf(entry), R, t), R + t)
          IN  last' = [op |-> "mapper", arg |-> entry, owner |-> R, row |-> row,
                       ret |-> <<supabaseToLocal(row, u)>>]
    /\ UNCHANGED <<entries, nextId, remote, queue, view, clock, foreign, faults, call, auth, who,
                   tasks, authState>>

SpecMapper == Init /\ [][MapRoundTrip]_vars

(* createEntry, updateEntry and deleteEntry await by await.  A call stands *)
(* at "local" while its local-store request runs, at "remote" while its    *)
(* remote request is in flight, at "returned" once its promise has         *)
(* settled, and is "idle" again when the caller has taken the result.      *)

(* The operation in progress, run from the stores it found, with the       *)
(* remote user id it was given *)
Run(supabaseUserId, F) ==
    CASE call.op = "createEntry" ->
            createEntry(call.s0, call.on, FieldsOf(call.arg), OwnerLocal, supabaseUserId, F, now)
      [] call.op = "updateEntry" ->
            updateEntry(call.s0, call.on, call.arg, supabaseUserId, F, now)
      [] call.op = "deleteEntry" ->
            deleteEntry(call.s0, call.on, call.arg.id, call.arg.supabaseId, supabaseUserId, F, now)

(* The App invokes an operation: the call starts with its first await, on  *)
(* the local store.  F is what the call will meet; s0 the stores it found. *)
Invoke(op, on, arg, F) ==
    /\ call.pc = "idle"
    /\ clock < AwaitOps
    /\ call' = [pc |-> "local", op |-> op, on |-> on, arg |-> arg, F |-> F, s0 |-> StoreState]
    /\ UNCHANGED <<entries, nextId, remote, queue, view, clock, foreign, faults, last, auth, who,
                   tasks, authState>>
    /\ (Run(OwnerRemote, F).failed = F)'

AwaitCreateEntry ==
    \E on \in BOOLEAN : \E entry \in Drafts, F \in Plans(LocalFault \cup InsertFaults(on)) :
       Invoke("createEntry", on, FuelEntry(0, OwnerLocal, entry, 0, 0, 0, FALSE), F)

AwaitUpdateEntry ==
    \E on \in BOOLEAN : \E held \in view, f \in Drafts, keep \in BOOLEAN,
       F \in Plans(LocalFault \cup WriteFaults(on)) :
       /\ held.id # 0
       /\ keep => held.supabaseId # 0
       /\ Invoke("updateEntry", on,
                 IF keep
                 THEN FuelEntry(held.id, held.userId, f, held.supabaseId,
                                held.supabaseUserId, held.syncedAt, held.isDeleted)
                 ELSE FuelEntry(held.id, held.userId, f, 0, 0, 0, FALSE), F)

AwaitDeleteEntry ==
    \E on \in BOOLEAN : \E held \in view, F \in Plans(LocalFault \cup WriteFaults(on)) :
       /\ held.id # 0
       /\ Invoke("deleteEntry", on, held, F)

(* Its part up to the first await's completion: the local-store mutation *)
LocalPart == Run(0, call.F \cap LocalFault)

(* Whether, the local mutation done, the code sends a remote request and   *)
(* awaits its response: online, and for update and delete a supabaseId     *)
SendsRemote ==
    /\ ~LocalPart.threw
    /\ call.on
    /\ call.op = "createEntry" \/ call.arg.supabaseId # 0

(* The local-store request completes.  Online, the code goes on to         *)
(* `await supabase...`: the request leaves and the call stands at          *)
(* "remote".  Otherwise it queues what it has to and its promise settles.  *)
LocalDone ==
    /\ call.pc = "local"
    /\ IF SendsRemote
       THEN /\ entries' = LocalPart.s.entries
            /\ nextId' = LocalPart.s.nextId
            /\ call' = [call EXCEPT !.pc = "remote"]
            /\ UNCHANGED <<remote, queue>>
       ELSE /\ entries' = Run(OwnerRemote, call.F).s.entries
            /\ nextId' = Run(OwnerRemote, call.F).s.nextId
            /\ remote' = Run(OwnerRemote, call.F).s.remote
            /\ queue' = Run(OwnerRemote, call.F).s.queue
            /\ call' = [call EXCEPT !.pc = "returned"]
    /\ UNCHANGED <<view, clock, foreign, faults, last, auth, who,
                   tasks, authState>>

(* The remote response arrives: the code after the await runs (stamping    *)
(* the local record, or queueing the operation) and the promise settles    *)
RemoteResponse ==
    /\ call.pc = "remote"
    /\ entries' = Run(OwnerRemote, call.F).s.entries
    /\ nextId' = Run(OwnerRemote, call.F).s.nextId
    /\ remote' = Run(OwnerRemote, call.F).s.remote
    /\ queue' = Run(OwnerRemote, call.F).s.queue
    /\ call' = [call EXCEPT !.pc = "returned"]
    /\ UNCHANGED <<view, clock, foreign, faults, last, auth, who,
                   tasks, authState>>

(* The caller's continuation: the App takes the result into its state *)
Return ==
    /\ call.pc = "returned"
    /\ LET r == Run(OwnerRemote, call.F)
       IN  /\ faults' = faults + Cardinality(call.F)
           /\ view' = IF r.threw THEN view
                      ELSE CASE call.op = "createEntry" -> view \cup {r.ret[1]}
                             [] call.op = "updateEntry" ->
                                   {IF e.id = call.arg.id THEN call.arg ELSE e : e \in view}
                             [] call.op = "deleteEntry" -> {e \in view : e.id # call.arg.id}
           /\ last' = Record(call.op, call.on, call.arg, r, call.s0.queue,
                             [op |-> last.op, online |-> last.online, arg |-> last.arg,
                              threw |-> last.threw, ret |-> last.ret])
    /\ clock' = clock + 1
    /\ call' = NoCall
    /\ UNCHANGED <<entries, nextId, remote, queue, foreign, auth, who, tasks, authState>>

AwaitNext ==
    \/ AwaitCreateEntry
    \/ AwaitUpdateEntry
    \/ AwaitDeleteEntry
    \/ LocalDone
    \/ RemoteResponse
    \/ Return

(* The event loop runs the code that follows a completed local-store       *)
(* request and hands a settled promise to the caller; nothing bounds the   *)
(* time the remote takes to answer                                         *)
SpecAwait == Init /\ [][AwaitNext]_vars /\ WF_vars(LocalDone) /\ WF_vars(Return)

-----------------------------------------------------------------------------
(* Overlapping runs.  fullSync is started, and not awaited, by             *)
(* initializeAuth, by the SIGNED_IN handler and by the 'online' handler;   *)
(* loadEntries starts getAllEntries.  Each run advances from one await to  *)
(* the next; the code between two awaits runs without interruption.  The   *)
(* runs are taken online and without faults.  A run's awaits on the local  *)
(* store that follow one another are taken as one step, as are the awaits  *)
(* of pushUnsyncedEntries and the selects of a pull.                       *)

(* A run: where it stands (pc), the queue it read at line 493 and its      *)
(* position i in it, the id of the row its insert returned, the rows it    *)
(* fetched and its position j in them, the keys of the deleted rows, what  *)
(* findLocalBySupabaseId answered; history: the items it inserted a row    *)
(* for, the items user operations queued while it was draining, and the    *)
(* remote rows it created a local record for                               *)
Task(kind, pc, snapshot) ==
    [kind |-> kind, pc |-> pc, snapshot |-> snapshot, i |-> 1, row |-> 0,
     data |-> <<>>, j |-> 1, deletedSet |-> {}, existingLocal |-> 0,
     inserted |-> <<>>, enq |-> {}, created |-> {}]

Draining(task) == task.pc \in {"drain", "replied"}

Stores(s) ==
    /\ entries' = s.entries
    /\ nextId' = s.nextId
    /\ remote' = s.remote
    /\ queue' = s.queue

(* fullSync, lines 571-574, and processSyncQueue up to its first await *)
StartFullSync ==
    /\ Len(tasks) < MaxTasks
    /\ tasks' = Append(tasks, Task("fullSync", IF Len(queue) = 0 THEN "push" ELSE "drain", queue))
    /\ UNCHANGED <<entries, nextId, remote, queue, view, clock, foreign, faults, last, call,
                   auth, who, authState>>

(* loadEntries: getAllEntries up to its first await *)
StartLoadEntries ==
    /\ Len(tasks) < MaxTasks
    /\ tasks' = Append(tasks, Task("getAllEntries", "pull", <<>>))
    /\ UNCHANGED <<entries, nextId, remote, queue, view, clock, foreign, faults, last, call,
                   auth, who, authState>>

(* Whether the case of the item's type issues a request (lines 502, 523,   *)
(* 542), and what the request does to the table                            *)
HasRequest(item) ==
    CASE item.type = "create" -> Len(item.data) > 0 /\ item.localId # 0
      [] item.type = "update" -> Len(item.data) > 0 /\ item.supabaseId # 0
      [] item.type = "delete" -> item.supabaseId # 0

Requested(s, item) ==
    CASE item.type = "create" ->
            RemoteInsert(s, localToSupabase(item.localId, item.data[1], OwnerRemote, now))
      [] item.type = "update" ->
            RemoteUpdateFields(s, item.supabaseId, OwnerRemote, item.data[1])
      [] item.type = "delete" ->
            RemoteSoftDelete(s, item.supabaseId, OwnerRemote)

(* The code after the request's await: a create stamps the local record    *)
(* (line 517); every item is then removed from the queue (line 558)        *)
ReplayRest(s, item, row) ==
    removeFromSyncQueue(IF item.type = "create" /\ row # 0
                        THEN updateLocalWithSupabaseId(s, item.localId, row,
                                                       s.remote[row].synced_at)
                        ELSE s,
                        item.localId, item.supabaseId)

(* for (const item of queue): on to the next item of the snapshot *)
NextItem(task) ==
    [task EXCEPT !.i = @ + 1, !.row = 0,
                 !.pc = IF task.i + 1 > Len(task.snapshot) THEN "push" ELSE "drain"]

(* The request of item i reaches the table *)
ReplaySend ==
    \E t \in DOMAIN tasks :
       LET task == tasks[t]
           item == task.snapshot[task.i]
       IN  /\ task.pc = "drain"
           /\ IF HasRequest(item)
              THEN /\ Stores(Requested(StoreState, item))
                   /\ tasks' = [tasks EXCEPT ![t] =
                         [task EXCEPT !.pc = "replied",
                                      !.row = IF item.type = "create"
                                              THEN NewRowId(StoreState) ELSE 0,
                                      !.inserted = IF item.type = "create"
                                                   THEN Append(@, item) ELSE @]]
              ELSE /\ Stores(ReplayRest(StoreState, item, 0))
                   /\ tasks' = [tasks EXCEPT ![t] = NextItem(task)]
           /\ UNCHANGED <<view, clock, foreign, faults, last, call, auth, who, authState>>

(* The response arrives and the code after the await runs *)
ReplayDone ==
    \E t \in DOMAIN tasks :
       LET task == tasks[t]
       IN  /\ task.pc = "replied"
           /\ Stores(ReplayRest(StoreState, task.snapshot[task.i], task.row))
           /\ tasks' = [tasks EXCEPT ![t] = NextItem(task)]
           /\ UNCHANGED <<view, clock, foreign, faults, last, call, auth, who, authState>>

(* fullSync, line 577 *)
PushStep ==
    \E t \in DOMAIN tasks :
       /\ tasks[t].pc = "push"
       /\ Stores(pushUnsyncedEntries(StoreState, OwnerLocal, OwnerRemote, {}, now).s)
       /\ tasks' = [tasks EXCEPT ![t].pc = "pull"]
       /\ UNCHANGED <<view, clock, foreign, faults, last, call, auth, who, authState>>

(* What the caller of a finished pull does with the entries it returns:    *)
(* loadEntries puts them in the App state, fullSync drops them             *)
Returned(task, data) ==
    IF task.kind = "getAllEntries"
    THEN view' = {supabaseToLocal(data[i], OwnerLocal) : i \in DOMAIN data}
    ELSE UNCHANGED view

(* getAllEntries, lines 112-131, and syncToLocal, lines 346-356: the       *)
(* selects, and syncDeletionsToLocal                                       *)
PullFetch ==
    \E t \in DOMAIN tasks :
       LET task == tasks[t]
           s == StoreState
           data == RowsAt(s, ByDateDesc(s, RemoteIds(s, OwnerRemote, FALSE)))
           deletedData == RowsAt(s, SetToSeq(RemoteIds(s, OwnerRemote, TRUE)))
           s1 == IF Len(deletedData) > 0
                 THEN syncDeletionsToLocal(s, deletedData, OwnerLocal)
                 ELSE s
       IN  /\ task.pc = "pull"
           /\ Stores(s1)
           /\ tasks' = [tasks EXCEPT ![t] =
                 [task EXCEPT !.pc = IF Len(data) = 0 THEN "done" ELSE "find",
                              !.data = data, !.j = 1,
                              !.deletedSet = IF Len(data) = 0 THEN {}
                                             ELSE {KeyOfRow(s.remote[i]) :
                                                      i \in RemoteIds(s, OwnerRemote, TRUE)}]]
           /\ IF Len(data) = 0 THEN Returned(task, data) ELSE UNCHANGED view
           /\ UNCHANGED <<clock, foreign, faults, last, call, auth, who, authState>>

(* syncToLocal, line 362: await findLocalBySupabaseId(remoteEntry.id) *)
PullFind ==
    \E t \in DOMAIN tasks :
       LET task == tasks[t]
       IN  /\ task.pc = "find"
           /\ tasks' = [tasks EXCEPT ![t] =
                 [task EXCEPT !.pc = "write",
                              !.existingLocal =
                                  findLocalBySupabaseId(StoreState, task.data[task.j].id)]]
           /\ UNCHANGED <<entries, nextId, remote, queue, view, clock, foreign, faults, last,
                          call, auth, who, authState>>

(* syncToLocal, lines 364-384: the write that follows the answer *)
PullWrite ==
    \E t \in DOMAIN tasks :
       LET task == tasks[t]
           s == StoreState
           remoteEntry == task.data[task.j]
           localEntry == supabaseToLocal(remoteEntry, OwnerLocal)
           s1 == IF task.existingLocal # 0
                 THEN updateLocalEntryFull(s,
                          LocalRecord(task.existingLocal, OwnerLocal, FieldsOf(localEntry),
                                      remoteEntry.id, remoteEntry.synced_at))
                 ELSE IF KeyOfRow(remoteEntry) \notin task.deletedSet
                      THEN createLocalFromRemote(s, localEntry, remoteEntry.id, OwnerLocal)
                      ELSE s
           last_ == task.j + 1 > Len(task.data)
       IN  /\ task.pc = "write"
           /\ Stores(s1)
           /\ tasks' = [tasks EXCEPT ![t] =
                 [task EXCEPT !.pc = IF last_ THEN "done" ELSE "find",
                              !.j = IF last_ THEN 1 ELSE @ + 1,
                              !.data = IF last_ THEN <<>> ELSE @,
                              !.deletedSet = IF last_ THEN {} ELSE @,
                              !.existingLocal = 0,
                              !.created = IF s1.nextId > s.nextId
                                          THEN @ \cup {remoteEntry.id} ELSE @]]
           /\ IF last_ THEN Returned(task, task.data) ELSE UNCHANGED view
           /\ UNCHANGED <<clock, foreign, faults, last, call, auth, who, authState>>

(* A user operation or another device's, between two awaits of the runs, *)
(* online or offline, none of its calls failing                            *)
OverlapTick ==
    /\ clock < OverlapOps
    /\ clock' = clock + 1
    /\ UNCHANGED <<call, auth, who, authState>>

Faultless == last'.failed = {}

(* History: the runs that are draining note what the operation queued *)
NoteQueued ==
    tasks' = [t \in DOMAIN tasks |->
                 IF Draining(tasks[t])
                 THEN [tasks[t] EXCEPT !.enq = @ \cup (Range(queue') \ Range(queue))]
                 ELSE tasks[t]]

OverlapCreateEntry == OverlapTick /\ AppAddEntry(DeepDrafts) /\ Faultless /\ NoteQueued

OverlapUpdateEntry == OverlapTick /\ AppUpdateEntry(DeepDrafts) /\ Faultless /\ NoteQueued

OverlapDeleteEntry == OverlapTick /\ AppDeleteEntry /\ Faultless /\ NoteQueued

OverlapOtherDeviceCreate == OverlapTick /\ OtherCreate(DeepDrafts) /\ Faultless /\ NoteQueued

OverlapNext ==
    \/ StartFullSync
    \/ StartLoadEntries
    \/ ReplaySend
    \/ ReplayDone
    \/ PushStep
    \/ PullFetch
    \/ PullFind
    \/ PullWrite
    \/ OverlapCreateEntry
    \/ OverlapUpdateEntry
    \/ OverlapDeleteEntry
    \/ OverlapOtherDeviceCreate

SpecOverlap == Init /\ [][OverlapNext]_vars

(* One fullSync run, and the user's operations between its awaits *)
DrainTick ==
    /\ clock < DrainOps
    /\ clock' = clock + 1
    /\ UNCHANGED <<call, auth, who, authState>>

DrainStartFullSync == tasks = <<>> /\ StartFullSync

DrainCreateEntry == DrainTick /\ AppAddEntry(DeepDrafts) /\ Faultless /\ NoteQueued

DrainUpdateEntry == DrainTick /\ AppUpdateEntry(DeepDrafts) /\ Faultless /\ NoteQueued

DrainDeleteEntry == DrainTick /\ AppDeleteEntry /\ Faultless /\ NoteQueued

DrainNext ==
    \/ DrainStartFullSync
    \/ ReplaySend
    \/ ReplayDone
    \/ PushStep
    \/ PullFetch
    \/ PullFind
    \/ PullWrite
    \/ DrainCreateEntry
    \/ DrainUpdateEntry
    \/ DrainDeleteEntry

SpecDrain == Init /\ [][DrainNext]_vars

-----------------------------------------------------------------------------
(* The AuthProvider on its own: authState, the calls signIn and signOut    *)
(* and the onAuthStateChange handler, each advancing from one await to the *)
(* next.  The auth client is outside the program: what it answers, and     *)
(* whether it runs a handler before or after the caller's continuation, is *)
(* left open.                                                              *)

(* A call or handler in progress: the account it is for (remote id R,      *)
(* whether its email is confirmed), what the auth client answered, the     *)
(* handler the answer started, the user?.id the call closed over; history: *)
(* whether the call met an error, and whether SESSION_KEY was stored when  *)
(* it started                                                              *)
AuthTask(kind, pc, R, confirmed) ==
    [kind |-> kind, pc |-> pc, R |-> R, confirmed |-> confirmed, outcome |-> "none",
     handler |-> 0, userId |-> auth.user.id, threw |-> FALSE,
     hadKey |-> authState.sessionKey]

AuthInit ==
    /\ entries = EmptyStore
    /\ nextId = 1
    /\ remote = <<>>
    /\ queue = <<>>
    /\ view = {}
    /\ clock = 0
    /\ foreign = {}
    /\ faults = 0
    /\ call = NoCall
    /\ auth = [user |-> NoUser, map |-> NoMap]
    /\ who = <<>>
    /\ tasks = <<>>
    /\ authState \in {[status |-> "loading", sessionKey |-> k] : k \in BOOLEAN}
    /\ last = Record("init", TRUE, NoEntry, Result(StoreState, FALSE, <<>>, <<>>, {}, "none"), <<>>,
                     Summary("init", TRUE, NoEntry, Result(StoreState, FALSE, <<>>, <<>>, {}, "none")))

AuthTick ==
    /\ clock < AuthOps
    /\ clock' = clock + 1
    /\ UNCHANGED <<view, foreign, last, call, who>>

(* setAuthState({ status: 'authenticated', user }) and, for a session of   *)
(* the auth client, fullSync(localId, session.user.id)                     *)
Authenticated(u) ==
    /\ authState' = [authState EXCEPT !.status = "authenticated"]
    /\ IF u.supabaseId # 0
       THEN Stores(fullSync(StoreState, TRUE, u.id, u.supabaseId, {}, now).s)
       ELSE UNCHANGED <<entries, nextId, remote, queue>>

(* initializeAuth: getSession() fails, or holds a session of R, or holds   *)
(* none; without a session the legacy SESSION_KEY is looked up, and its    *)
(* user may or may not be in the local store                               *)
InitializeAuth ==
    /\ AuthTick
    /\ authState.status = "loading"
    /\ \E outcome \in {"error", "session", "none"}, R \in Owners, localUser \in BOOLEAN :
          CASE outcome = "session" ->
                  LET g == getOrCreateLocalUserId(auth.map, R, {}, now)
                  IN  /\ auth' = [user |-> User(g.id, R), map |-> g.map]
                      /\ Authenticated(User(g.id, R))
            [] outcome = "none" /\ authState.sessionKey /\ localUser ->
                  /\ auth' = [auth EXCEPT !.user = User(OwnerLocal, 0)]
                  /\ Authenticated(User(OwnerLocal, 0))
            [] OTHER ->
                  /\ authState' = [authState EXCEPT !.status = "unauthenticated"]
                  /\ UNCHANGED <<auth, entries, nextId, remote, queue>>
    /\ UNCHANGED <<tasks, faults>>

(* signIn up to `await supabase.auth.signInWithPassword(...)` *)
SignInSubmit ==
    /\ AuthTick
    /\ authState.status \in {"unauthenticated", "awaiting_confirmation"}
    /\ \E R \in Owners, confirmed \in BOOLEAN :
          tasks' = Append(tasks, AuthTask("signIn", "request", R, confirmed))
    /\ UNCHANGED <<entries, nextId, remote, queue, faults, auth, authState>>

(* The auth client answers: the credentials are rejected, or the sign-in   *)
(* is refused because the email is not confirmed, or it succeeds; on       *)
(* success the client holds a session and notifies SIGNED_IN, and the      *)
(* handler runs up to `await getOrCreateLocalUserId(...)`                  *)
SignInResponse ==
    \E t \in DOMAIN tasks :
       /\ tasks[t].kind = "signIn"
       /\ tasks[t].pc = "request"
       /\ \E outcome \in (IF tasks[t].confirmed THEN {"rejected", "session"}
                          ELSE {"rejected", "notConfirmed", "session"}) :
             tasks' = IF outcome = "session"
                      THEN Append([tasks EXCEPT ![t].pc = "resume", ![t].outcome = outcome,
                                                ![t].handler = Len(tasks) + 1],
                                  AuthTask("SIGNED_IN", "await", tasks[t].R, tasks[t].confirmed))
                      ELSE [tasks EXCEPT ![t].pc = "resume", ![t].outcome = outcome]
       /\ UNCHANGED <<entries, nextId, remote, queue, view, clock, foreign, faults, last, call,
                      auth, who, authState>>

(* signIn after the await, lines 178-195 *)
SignInResume ==
    \E t \in DOMAIN tasks :
       LET task == tasks[t]
           needsConfirmation == \/ task.outcome = "notConfirmed"
                                \/ (task.outcome = "session" /\ ~task.confirmed)
       IN  /\ task.kind = "signIn"
           /\ task.pc = "resume"
           /\ tasks' = [tasks EXCEPT ![t].pc = "done"]
           /\ IF needsConfirmation
              THEN /\ authState' = [authState EXCEPT !.status = "awaiting_confirmation"]
                   /\ auth' = [auth EXCEPT !.user = NoUser]
              ELSE UNCHANGED <<auth, authState>>
           /\ UNCHANGED <<entries, nextId, remote, queue, view, clock, foreign, faults, last,
                          call, who>>

(* The SIGNED_IN handler after its await, lines 142-148 *)
SignedInResume ==
    \E t \in DOMAIN tasks :
       LET task == tasks[t]
           g == getOrCreateLocalUserId(auth.map, task.R, {}, now)
       IN  /\ task.kind = "SIGNED_IN"
           /\ task.pc = "await"
           /\ tasks' = [tasks EXCEPT ![t].pc = "done"]
           /\ auth' = [user |-> User(g.id, task.R), map |-> g.map]
           /\ Authenticated(User(g.id, task.R))
           /\ UNCHANGED <<view, clock, foreign, faults, last, call, who>>

(* A signOut that would leave the state alone when it met an error: C37   *)
(* rules it out                                                            *)
signOut_KeepsOnError(st, threw) ==
    IF threw THEN st ELSE [status |-> "unauthenticated", sessionKey |-> FALSE]

(* signOut, lines 252-254 and, in the catch, 258-259: SESSION_KEY is       *)
(* removed and the state set to 'unauthenticated'                          *)
signOut(st, threw) == [status |-> "unauthenticated", sessionKey |-> FALSE]

(* signOut up to `await clearLocalEntries(user.id)` *)
SignOutStart ==
    /\ AuthTick
    /\ authState.status = "authenticated"
    /\ tasks' = Append(tasks, AuthTask("signOut", "clear", auth.user.supabaseId, TRUE))
    /\ UNCHANGED <<entries, nextId, remote, queue, faults, auth, authState>>

(* clearLocalEntries settles: when it throws, the catch forces the sign    *)
(* out; otherwise the code goes on to `await supabase.auth.signOut()`      *)
SignOutCleared ==
    \E t \in DOMAIN tasks : \E F \in Plans(LocalFault) :
       LET task == tasks[t]
           r == clearLocalEntries(StoreState, task.userId, F)
       IN  /\ task.kind = "signOut"
           /\ task.pc = "clear"
           /\ Commit(r, F)
           /\ IF r.threw
              THEN /\ tasks' = [tasks EXCEPT ![t].pc = "done", ![t].threw = TRUE]
                   /\ authState' = signOut(authState, TRUE)
                   /\ auth' = [auth EXCEPT !.user = NoUser]
              ELSE /\ tasks' = [tasks EXCEPT ![t].pc = "remote"]
                   /\ UNCHANGED <<auth, authState>>
           /\ UNCHANGED <<view, clock, foreign, last, call, who>>

(* supabase.auth.signOut() settles, with or without an error *)
SignOutRemote ==
    \E t \in DOMAIN tasks : \E threw \in BOOLEAN :
       /\ tasks[t].kind = "signOut"
       /\ tasks[t].pc = "remote"
       /\ tasks' = [tasks EXCEPT ![t].pc = "done", ![t].threw = threw]
       /\ authState' = signOut(authState, threw)
       /\ auth' = [auth EXCEPT !.user = NoUser]
       /\ UNCHANGED <<entries, nextId, remote, queue, view, clock, foreign, faults, last, call,
                      who>>

(* onAuthStateChange, event SIGNED_OUT, lines 149-153 *)
SignedOutEvent ==
    /\ AuthTick
    /\ authState.status = "authenticated"
    /\ authState' = [status |-> "unauthenticated", sessionKey |-> FALSE]
    /\ auth' = [auth EXCEPT !.user = NoUser]
    /\ UNCHANGED <<entries, nextId, remote, queue, faults, tasks>>

AuthNext ==
    \/ InitializeAuth
    \/ SignInSubmit
    \/ SignInResponse
    \/ SignInResume
    \/ SignedInResume
    \/ SignOutStart
    \/ SignOutCleared
    \/ SignOutRemote
    \/ SignedOutEvent

SpecAuth == AuthInit /\ [][AuthNext]_vars

-----------------------------------------------------------------------------
(* The local store adapter on its own: addEntry, bulkAddEntries and        *)
(* replaceAllEntries, called one after the other, each advancing with the  *)
(* events of its IndexedDB requests.                                       *)

(* The lists given to the adapter: entries without id, each with a userId *)
DbDrafts == {Draft(18, "Shell"), Draft(19, "Shell")}

DbEntries == [userId : Owners, f : DbDrafts]

DbLists == UNION {[1..n -> DbEntries] : n \in 0..MaxList}

(* entries.map(entry => ({ ...entry, userId })) put aside: C38 rules it out *)
Stamped_AsGiven(list, userId) == list

(* replaceAllEntries, line 262: entries.map(entry => ({ ...entry, userId })) *)
Stamped(list, userId) == [i \in DOMAIN list |-> [list[i] EXCEPT !.userId = userId]]

(* A call of the adapter: the list it adds, `pending` of bulkAddEntries,   *)
(* the next request k to succeed; history: the store when it started       *)
DbTask(kind, pc, userId, list) ==
    [kind |-> kind, pc |-> pc, userId |-> userId, list |-> list, pending |-> Len(list),
     k |-> 1, before |-> entries]

(* No call in progress: none was made, or the last one's promise resolved *)
DbIdle == IF tasks = <<>> THEN TRUE ELSE tasks[1].pc = "resolved"

DbTick ==
    /\ DbIdle
    /\ clock < DbOps
    /\ clock' = clock + 1
    /\ UNCHANGED <<remote, queue, view, foreign, faults, last, call, auth, who, authState>>

(* addEntry(entry) *)
DbAddEntry ==
    /\ DbTick
    /\ \E e \in DbEntries : Stores(DbAdd(StoreState, e.userId, e.f, 0, 0))
    /\ UNCHANGED tasks

(* bulkAddEntries(entries): the transaction is opened, pending is set to   *)
(* entries.length and one add request is placed per entry                  *)
BulkAddStart ==
    /\ DbTick
    /\ \E list \in DbLists : tasks' = <<DbTask("bulkAddEntries", "pending", 0, list)>>
    /\ UNCHANGED <<entries, nextId>>

(* replaceAllEntries(userId, entries) up to `await clearAllEntries(userId)` *)
ReplaceAllStart ==
    /\ DbTick
    /\ \E userId \in Owners, list \in DbLists :
          tasks' = <<DbTask("replaceAllEntries", "clearing", userId, list)>>
    /\ UNCHANGED <<entries, nextId>>

(* clearAllEntries resolves; a non-empty list goes to bulkAddEntries with  *)
(* the userId stamped, an empty one ends the call                          *)
ClearDone ==
    /\ tasks # <<>>
    /\ tasks[1].pc = "clearing"
    /\ Stores(DbClearAll(StoreState, tasks[1].userId))
    /\ tasks' = <<[tasks[1] EXCEPT !.pc = IF Len(tasks[1].list) > 0 THEN "pending"
                                         ELSE "resolved",
                                  !.list = Stamped(@, tasks[1].userId)]>>
    /\ UNCHANGED <<view, clock, foreign, faults, last, call, auth, who, authState>>

(* request.onsuccess of the next add: the record is in the store,          *)
(* pending--, and the promise resolves when pending is 0                   *)
RequestSuccess ==
    /\ tasks # <<>>
    /\ tasks[1].pc = "pending"
    /\ tasks[1].k <= Len(tasks[1].list)
    /\ LET e == tasks[1].list[tasks[1].k]
       IN  Stores(DbAdd(StoreState, e.userId, e.f, 0, 0))
    /\ tasks' = <<[tasks[1] EXCEPT !.k = @ + 1, !.pending = @ - 1,
                                  !.pc = IF tasks[1].pending - 1 = 0 THEN "resolved"
                                         ELSE "pending"]>>
    /\ UNCHANGED <<view, clock, foreign, faults, last, call, auth, who, authState>>

DbNext ==
    \/ DbAddEntry
    \/ BulkAddStart
    \/ ReplaceAllStart
    \/ ClearDone
    \/ RequestSuccess

(* IndexedDB delivers the success event of every request that was placed *)
SpecDb == Init /\ [][DbNext]_vars /\ WF_vars(RequestSuccess)

-----------------------------------------------------------------------------
(* Vocabulary of the properties *)

Owned(k) == k \in DOMAIN entries /\ entries[k].userId = OwnerLocal

OwnRows == {i \in DOMAIN remote : remote[i].user_id = OwnerRemote}

LiveRows == {i \in OwnRows : ~remote[i].is_deleted}

DeletedRows == {i \in OwnRows : remote[i].is_deleted}

(* The last operation was fullSync, online, and none of its calls failed *)
CleanSync ==
    /\ last.op = "fullSync"
    /\ last.online
    /\ ~last.threw
    /\ last.failed = {}

(* The operation before the last was createEntry while offline *)
AfterOfflineCreate ==
    /\ last.prev.op = "createEntry"
    /\ ~last.prev.online
    /\ ~last.prev.threw

CreatesOf(q, localId) ==
    {i \in DOMAIN q : q[i].type = "create" /\ q[i].localId = localId}

-----------------------------------------------------------------------------
(* C1: createEntry while offline leaves a local record with an id and no   *)
(* remoteId and exactly one 'create' queue item of that id; the fullSync   *)
(* that follows online, none of its remote calls failing, leaves the queue *)
(* empty, that record with a remoteId and a syncedAt, and exactly one live *)
(* row of the owner with the record's field values.                        *)
C1_OfflineRoundTrip ==
    /\ (last.op = "createEntry" /\ ~last.online /\ ~last.threw)
        => LET e == last.ret[1]
           IN  /\ e.id # 0
               /\ e.supabaseId = 0
               /\ e.id \in DOMAIN entries
               /\ entries[e.id].supabaseId = 0
               /\ Cardinality(CreatesOf(queue, e.id)) = 1
    /\ (CleanSync /\ AfterOfflineCreate)
        => LET e == last.prev.ret[1]
           IN  /\ queue = <<>>
               /\ e.id \in DOMAIN entries
               /\ entries[e.id].supabaseId # 0
               /\ entries[e.id].syncedAt # 0
               /\ Cardinality({i \in LiveRows : RowFields(remote[i]) = FieldsOf(e)}) = 1

-----------------------------------------------------------------------------
(* C2: pushing the same local record twice never leaves two non-deleted    *)
(* rows of the owner with the same identity key: no two live rows that     *)
(* this device inserted for one local record (same local_id) share their   *)
(* key (date, amountPaid, odometerReading, fuelFilled).                    *)
C2_IdempotentPush ==
    \A i, j \in LiveRows \ foreign :
        (i # j /\ remote[i].local_id = remote[j].local_id)
            => KeyOfRow(remote[i]) # KeyOfRow(remote[j])

(* C3: when a soft-deleted row of the owner has the identity key of a      *)
(* record the device created offline, the fullSync that follows discards   *)
(* the local record and inserts no live row with that key.  (No delete is  *)
(* replayed by this fullSync, so the row was deleted before it; the rows   *)
(* it inserts are those stamped with the current clock.)                   *)
C3_DeletionWins ==
    (/\ CleanSync
     /\ AfterOfflineCreate
     /\ \A i \in DOMAIN last.before : last.before[i].type # "delete"
     /\ \E d \in DeletedRows : KeyOfRow(remote[d]) = KeyOfEntry(last.prev.ret[1]))
    => /\ last.prev.ret[1].id \notin DOMAIN entries
       /\ ~ \E i \in LiveRows :
               /\ remote[i].synced_at = clock
               /\ KeyOfRow(remote[i]) = KeyOfEntry(last.prev.ret[1])

(* C4: a queue entry whose replay failed is still in the queue when the    *)
(* drain has returned, whatever other entries were replayed successfully.  *)
C4_FailedReplayStaysQueued ==
    last.op = "fullSync" =>
        \A i \in DOMAIN last.log :
            ~last.log[i].ok => \E j \in DOMAIN queue : queue[j] = last.log[i].item

(* C5: the drain replays the queue items in insertion order, one at a     *)
(* time, and a failed replay does not end it: the replays of a fullSync    *)
(* are the items of the queue it started with, each once, in queue order,  *)
(* those after a failed one included.                                      *)
C5_DrainInOrderNoAbort ==
    (last.op = "fullSync" /\ last.online)
    => /\ Len(last.log) = Len(last.before)
       /\ \A i \in DOMAIN last.log :
             /\ last.log[i].index = i
             /\ last.log[i].item = last.before[i]

(* A drain of two items whose first replay failed and whose second         *)
(* succeeded                                                               *)
C5_Witness ==
    /\ last.op = "fullSync"
    /\ last.online
    /\ Len(last.before) = 2
    /\ Len(last.log) = 2
    /\ ~last.log[1].ok
    /\ last.log[2].ok
    /\ last.log[2].item = last.before[2]
    /\ last.before[1].timestamp < last.before[2].timestamp

(* C6: no two local records of the owner carry the same remoteId. *)
C6_UniqueRemoteId ==
    \A a, b \in DOMAIN entries :
        (a # b /\ Owned(a) /\ Owned(b) /\ entries[a].supabaseId # 0)
            => entries[a].supabaseId # entries[b].supabaseId

(* C7: an update of a record whose create is still queued is absorbed by   *)
(* the create: after the fullSync that follows, the local record and its   *)
(* remote row both hold the updated field values.                          *)
C7_UpdateAbsorbedByCreate ==
    (/\ CleanSync
     /\ last.prev.op = "updateEntry"
     /\ ~last.prev.threw
     /\ last.prev.arg.supabaseId = 0
     /\ CreatesOf(last.before, last.prev.arg.id) # {})
    => LET id == last.prev.arg.id
       IN  /\ id \in DOMAIN entries
           /\ FieldsOf(entries[id]) = FieldsOf(last.prev.arg)
           /\ entries[id].supabaseId \in DOMAIN remote
           /\ RowFields(remote[entries[id].supabaseId]) = FieldsOf(last.prev.arg)

(* C8: a failed remote call never reaches the caller: an operation        *)
(* rejects only when the local store failed, and createEntry, updateEntry  *)
(* and deleteEntry whose remote call failed have applied their change to   *)
(* the local store.                                                        *)
C8_RemoteFailureInvisible ==
    /\ last.threw => LocalDown(last.failed)
    /\ (RemoteFaults(last.failed) # {} /\ ~LocalDown(last.failed))
        => /\ ~last.threw
           /\ last.op = "createEntry"
                 => /\ Len(last.ret) = 1
                    /\ last.ret[1].id \in DOMAIN entries
                    /\ FieldsOf(entries[last.ret[1].id]) = FieldsOf(last.arg)
           /\ last.op = "updateEntry"
                 => /\ last.arg.id \in DOMAIN entries
                    /\ FieldsOf(entries[last.arg.id]) = FieldsOf(last.arg)
           /\ last.op = "deleteEntry" => last.arg.id \notin DOMAIN entries

(* An updateEntry whose remote update failed: it resolved, the record      *)
(* holds the new values and the row does not                               *)
C8_Witness ==
    /\ last.op = "updateEntry"
    /\ last.online
    /\ <<"remote", 0, "err">> \in last.failed
    /\ ~last.threw
    /\ FieldsOf(entries[last.arg.id]) = FieldsOf(last.arg)
    /\ RowFields(remote[last.arg.supabaseId]) # FieldsOf(last.arg)

(* C9: when getAllEntries falls back (offline, no supabaseUserId, or the   *)
(* select of the rows failed) it returns exactly the owner's local         *)
(* records, as many and with their values, and leaves the local store,     *)
(* the remote store and the queue as they were.                            *)
C9_ListFallback ==
    [][(/\ last'.op = "getAllEntries"
        /\ ~last'.threw
        /\ \/ ~last'.online
           \/ last'.arg.supabaseUserId = 0
           \/ <<"pull", 0, "err">> \in last'.failed)
       => /\ entries' = entries
          /\ remote' = remote
          /\ queue' = queue
          /\ Len(last'.ret) = Cardinality({k \in DOMAIN entries : Owned(k)})
          /\ \A k \in DOMAIN entries :
                Owned(k) => \E i \in DOMAIN last'.ret :
                               last'.ret[i] = LocalAsFuelEntry(entries[k])]_vars

(* A getAllEntries whose select failed while rows existed, which returned  *)
(* a record that has no remoteId                                           *)
C9_Witness ==
    /\ last.op = "getAllEntries"
    /\ <<"pull", 0, "err">> \in last.failed
    /\ ~last.threw
    /\ remote # <<>>
    /\ \E i \in DOMAIN last.ret : last.ret[i].supabaseId = 0
    /\ \E i \in DOMAIN last.ret : last.ret[i].supabaseId # 0

(* C10: an online getAllEntries returns the reconciled local view: the     *)
(* returned entries are the owner's local records (as many, those without  *)
(* remoteId included), each under the id of the local record that carries  *)
(* its remoteId and field values.                                          *)
C10_ReturnsLocalView ==
    (last.op = "getAllEntries" /\ last.path = "remote" /\ ~last.threw)
    => /\ Len(last.ret) = Cardinality({k \in DOMAIN entries : Owned(k)})
       /\ \A i \in DOMAIN last.ret :
             LET e == last.ret[i]
             IN  /\ e.id \in DOMAIN entries
                 /\ Owned(e.id)
                 /\ entries[e.id].supabaseId = e.supabaseId
                 /\ FieldsOf(entries[e.id]) = FieldsOf(e)

(* C11: when fullSync has run online and none of its remote calls failed,  *)
(* the sync queue is empty and every local record of the owner carries a   *)
(* remoteId.                                                               *)
C11_Convergence ==
    CleanSync
    => /\ queue = <<>>
       /\ \A k \in DOMAIN entries : Owned(k) => entries[k].supabaseId # 0

(* A clean fullSync that started with queued items and, after an edit had  *)
(* left a record without remoteId, ends with several records, all linked   *)
C11_Witness ==
    /\ CleanSync
    /\ Len(last.before) >= 1
    /\ last.prev.op = "updateEntry"
    /\ last.prev.arg.supabaseId = 0
    /\ Cardinality(DOMAIN entries) >= 2
    /\ queue = <<>>
    /\ \A k \in DOMAIN entries : entries[k].supabaseId # 0

(* C12: after an online getAllEntries that succeeded, every live row of    *)
(* the owner has exactly one local record of the owner carrying its id as  *)
(* remoteId, and that record's fields are the row's.                       *)
C12_OneLocalPerLiveRow ==
    (last.op = "getAllEntries" /\ last.path = "remote" /\ ~last.threw /\ last.failed = {})
    => \A i \in LiveRows :
          LET holders == {k \in DOMAIN entries : Owned(k) /\ entries[k].supabaseId = i}
          IN  /\ Cardinality(holders) = 1
              /\ \A k \in holders : FieldsOf(entries[k]) = RowFields(remote[i])

(* C13: after an online getAllEntries in which both selects succeeded, no  *)
(* local record of the owner carries the remoteId of a soft-deleted row.   *)
C13_DeletionsPropagate ==
    (last.op = "getAllEntries" /\ last.path = "remote" /\ ~last.threw /\ last.failed = {})
    => \A k \in DOMAIN entries :
          Owned(k) => entries[k].supabaseId \notin DeletedRows

C18_FullSyncIdempotent ==
    [][(/\ CleanSync
        /\ last'.op = "fullSync"
        /\ last'.online
        /\ ~last'.threw
        /\ last'.failed = {})
       => /\ entries' = entries
          /\ remote' = remote
          /\ queue' = queue]_vars

(* C19: every local record that carries a remoteId carries a syncedAt. *)
C19_SyncedAtWithRemoteId ==
    \A k \in DOMAIN entries : entries[k].supabaseId # 0 => entries[k].syncedAt # 0

(* Records stamped on each path: a local copy of another device's row,     *)
(* and a record of this device linked to its own row                       *)
C19_Witness ==
    /\ \E k \in DOMAIN entries : entries[k].supabaseId \in foreign /\ entries[k].syncedAt # 0
    /\ \E k \in DOMAIN entries :
          /\ entries[k].supabaseId \in DOMAIN remote \ foreign
          /\ entries[k].syncedAt # 0

(* C20: the local store holds no soft-deleted record: no local record has  *)
(* isDeleted set, and a record deleteEntry has deleted is absent from the  *)
(* store.                                                                  *)
C20_NoSoftDeletedLocal ==
    /\ \A k \in DOMAIN entries : ~entries[k].isDeleted
    /\ (last.op = "deleteEntry" /\ ~last.threw) => last.arg.id \notin DOMAIN entries

(* A deleteEntry of one of two records: the other is still there *)
C20_Witness ==
    /\ last.op = "deleteEntry"
    /\ ~last.threw
    /\ last.arg.id \notin DOMAIN entries
    /\ DOMAIN entries # {}
    /\ nextId > last.arg.id

(* C17: createEntry, updateEntry and deleteEntry resolve once the local    *)
(* mutation has completed, however long the remote takes to answer: a call *)
(* whose local-store request is running always gets to the point where    *)
(* its promise has settled, with no step of the remote needed.             *)
C17_LocalFirstLatency == (call.pc = "local") ~> (call.pc = "returned")

(* C21: clearLocalEntries(ownerLocalId), as signOut calls it, leaves no    *)
(* local record of that owner and an empty queue, changes no local record  *)
(* of another owner and nothing in the remote table.                       *)
C21_ClearLocalEntries ==
    [][(last'.op = "signOut" /\ last'.failed = {})
       => /\ \A k \in DOMAIN entries' : entries'[k].userId # auth.user.id
          /\ queue' = <<>>
          /\ \A k \in DOMAIN entries :
                entries[k].userId # auth.user.id
                   => k \in DOMAIN entries' /\ entries'[k] = entries[k]
          /\ remote' = remote]_vars

(* A sign-out that cleared a record its user had just created and a        *)
(* non-empty queue, with another owner's record and remote rows in place   *)
C21_Witness ==
    /\ last.op = "signOut"
    /\ last.failed = {}
    /\ last.before # <<>>
    /\ queue = <<>>
    /\ last.prev.op = "createEntry"
    /\ ~last.prev.threw
    /\ last.prev.ret[1].id \notin DOMAIN entries
    /\ \E k \in DOMAIN entries : entries[k].userId # last.arg.userId
    /\ remote # <<>>

(* C22: getOrCreateLocalUserId returns, for a remote owner id the owner    *)
(* map holds, the local id the map holds for it, on every call and across  *)
(* sign-ins and sign-outs; and no step, sign-out included, removes or      *)
(* changes an entry of the owner map.                                      *)
C22_OwnerMapStable ==
    [][/\ \A R \in DOMAIN auth.map : R \in DOMAIN auth'.map /\ auth'.map[R] = auth.map[R]
       /\ (auth'.user # NoUser /\ auth'.user.supabaseId \in DOMAIN auth.map)
             => auth'.user.id = auth.map[auth'.user.supabaseId]]_vars

(* C23: processSyncQueue, run for remote owner R, replays only queue       *)
(* entries that operations of owner R enqueued: every entry a fullSync     *)
(* replays was enqueued at an operation made while the owner the fullSync  *)
(* runs for was signed in.                                                 *)
C23_QueueStaysWithOwner ==
    [][last'.op = "fullSync"
       => \A i \in DOMAIN last'.log :
             last'.log[i].ok
                => who[last'.log[i].item.timestamp] = who'[Len(who')]]_vars

(* C24: getAllEntries leaves untouched every local record that has no      *)
(* remoteId and whose date, amount, odometer and fuel equal those of no    *)
(* soft-deleted remote row: the record is neither deleted nor modified.    *)
C24_PullLeavesUnsynced ==
    [][last'.op = "getAllEntries"
       => \A k \in DOMAIN entries :
             (/\ entries[k].supabaseId = 0
              /\ \A i \in DOMAIN remote :
                    remote[i].is_deleted => KeyOfRow(remote[i]) # KeyOfEntry(entries[k]))
                => k \in DOMAIN entries' /\ entries'[k] = entries[k]]_vars

(* A pull from the remote table, with live and soft-deleted rows, that     *)
(* created or removed local records and left such a record in place        *)
C24_Witness ==
    /\ last.op = "getAllEntries"
    /\ last.path = "remote"
    /\ ~last.threw
    /\ DeletedRows # {}
    /\ LiveRows # {}
    /\ \E k \in DOMAIN entries :
          /\ entries[k].supabaseId = 0
          /\ \A i \in DOMAIN remote :
                remote[i].is_deleted => KeyOfRow(remote[i]) # KeyOfEntry(entries[k])
    /\ \E k \in DOMAIN entries : entries[k].supabaseId \in LiveRows

(* C25: localToSupabase always produces is_deleted = false and the given   *)
(* owner's remote id, and supabaseToLocal of the row built from it returns *)
(* the entry's date, amountPaid, odometerReading, fuelFilled, fuelStation  *)
(* and local id unchanged, with remoteId and syncedAt those of the row.    *)
C25_MapperRoundTrip ==
    last.op = "mapper"
       => /\ last.row.is_deleted = FALSE
          /\ last.row.user_id = last.owner
          /\ FieldsOf(last.ret[1]) = FieldsOf(last.arg)
          /\ last.ret[1].id = last.arg.id
          /\ last.ret[1].supabaseId = last.row.id
          /\ last.ret[1].syncedAt = last.row.synced_at

(* An entry with a local id, mapped for owner 2 and back *)
C25_Witness ==
    /\ last.op = "mapper"
    /\ last.arg.id = 2
    /\ last.owner = 2
    /\ last.arg.fuelStation = "Shell"
    /\ last.arg.amountPaid = 800
    /\ last.ret[1].supabaseId = last.row.id
    /\ last.row.synced_at = 2

(* C26: deleteEntry leaves a queued create of the record it deletes in     *)
(* the queue; and a fullSync that replays with success the create of a     *)
(* record no longer in the local store inserts a remote row for it that    *)
(* is not deleted and holds the queued values.                             *)
C26_StaleCreateResurrects ==
    [][/\ (last'.op = "deleteEntry" /\ ~last'.threw)
             => \A i \in DOMAIN queue :
                   (queue[i].type = "create" /\ queue[i].localId = last'.arg.id)
                      => \E j \in DOMAIN queue' : queue'[j] = queue[i]
       /\ last'.op = "fullSync"
             => \A i \in DOMAIN last'.log :
                   (/\ last'.log[i].item.type = "create"
                    /\ last'.log[i].ok
                    /\ last'.log[i].item.localId \notin DOMAIN entries)
                      => \E j \in DOMAIN remote' \ DOMAIN remote :
                            /\ remote'[j].local_id = last'.log[i].item.localId
                            /\ ~remote'[j].is_deleted
                            /\ RowFields(remote'[j]) = last'.log[i].item.data[1]]_vars

(* Created offline, deleted before it was synced, then replayed: the row   *)
(* is live and the record it was made for is not in the local store        *)
C26_Witness ==
    /\ last.op = "fullSync"
    /\ last.prev.op = "deleteEntry"
    /\ ~last.prev.threw
    /\ last.prev.arg.supabaseId = 0
    /\ \E i \in DOMAIN last.log :
          /\ last.log[i].item.type = "create"
          /\ last.log[i].ok
          /\ last.log[i].item.localId = last.prev.arg.id
          /\ last.log[i].item.localId \notin DOMAIN entries
          /\ \E j \in LiveRows : remote[j].local_id = last.log[i].item.localId

(* C27: while the soft-delete of a row is pending in the queue and no      *)
(* local record carries the row's id (deleteEntry removed it), no          *)
(* getAllEntries and no fullSync that leaves the delete pending puts a     *)
(* local record with that remoteId into the store or returns one.          *)
C27_DeletedStaysPruned ==
    [][last'.op \in {"getAllEntries", "fullSync"}
       => \A i \in DOMAIN queue :
             (/\ queue[i].type = "delete"
              /\ \E j \in DOMAIN queue' : queue'[j] = queue[i]
              /\ \A k \in DOMAIN entries : entries[k].supabaseId # queue[i].supabaseId)
                => /\ \A k \in DOMAIN entries' : entries'[k].supabaseId # queue[i].supabaseId
                   /\ \A j \in DOMAIN last'.ret :
                         last'.ret[j].supabaseId # queue[i].supabaseId]_vars

(* C28: a record that has a remoteId is updated while offline (its update  *)
(* is the only entry queued, its row is live); the fullSync that follows,  *)
(* online and with every remote call succeeding, leaves the row live with  *)
(* the updated values, inserts no other row for the record, and leaves     *)
(* exactly one local record carrying the row's id, with the updated values.*)
C28_OfflineUpdateRoundTrip ==
    [][(/\ last.op = "updateEntry"
        /\ ~last.online
        /\ ~last.threw
        /\ last.arg.supabaseId \in LiveRows
        /\ queue = <<QueueItem("update", last.arg.id, last.arg.supabaseId,
                               <<FieldsOf(last.arg)>>, clock)>>
        /\ last'.op = "fullSync"
        /\ last'.online
        /\ ~last'.threw
        /\ last'.failed = {})
       => /\ ~remote'[last.arg.supabaseId].is_deleted
          /\ RowFields(remote'[last.arg.supabaseId]) = FieldsOf(last.arg)
          /\ \A j \in DOMAIN remote' \ DOMAIN remote : remote'[j].local_id # last.arg.id
          /\ LET holders == {k \in DOMAIN entries' :
                                entries'[k].supabaseId = last.arg.supabaseId}
             IN  /\ Cardinality(holders) = 1
                 /\ \A k \in holders : FieldsOf(entries'[k]) = FieldsOf(last.arg)]_vars

(* C29: no step sets is_deleted of a remote row back to false, and no step *)
(* removes a remote row: every row stays, and the table never shrinks.     *)
C29_RemoteDeletionTerminal ==
    [][/\ Len(remote') >= Len(remote)
       /\ \A i \in DOMAIN remote :
             /\ i \in DOMAIN remote'
             /\ remote[i].is_deleted => remote'[i].is_deleted]_vars

(* A queued update replayed on a row that is soft-deleted: the row has the *)
(* update's values and is still deleted                                    *)
C29_Witness ==
    /\ last.op = "fullSync"
    /\ \E i \in DOMAIN last.log :
          /\ last.log[i].ok
          /\ last.log[i].item.type = "update"
          /\ last.log[i].item.supabaseId \in DeletedRows
          /\ RowFields(remote[last.log[i].item.supabaseId]) = last.log[i].item.data[1]
          /\ last.log[i].item.data[1].fuelStation = "BP"

(* C30: updateEntry on a local record that carries a remoteId and a        *)
(* syncedAt leaves the record with the same remoteId and syncedAt.         *)
C30_UpdateKeepsRemoteId ==
    [][(/\ last'.op = "updateEntry"
        /\ ~last'.threw
        /\ last'.arg.id \in DOMAIN entries
        /\ entries[last'.arg.id].supabaseId # 0
        /\ entries[last'.arg.id].syncedAt # 0)
       => /\ last'.arg.id \in DOMAIN entries'
          /\ entries'[last'.arg.id].supabaseId = entries[last'.arg.id].supabaseId
          /\ entries'[last'.arg.id].syncedAt = entries[last'.arg.id].syncedAt]_vars

(* C31: an edit made through the App handlers to an entry the App holds    *)
(* with a remoteId reaches updateEntry with that remoteId, and the entry   *)
(* kept in the App state afterwards still carries it.                      *)
C31_EditCarriesRemoteId ==
    [][(/\ last'.op = "updateEntry"
        /\ ~last'.threw)
       => \A held \in view :
             (held.id = last'.arg.id /\ held.supabaseId # 0)
             => /\ last'.arg.supabaseId = held.supabaseId
                /\ \E e \in view' : e.id = held.id /\ e.supabaseId = held.supabaseId]_vars

C33_OneInsertPerQueuedCreate ==
    \A a, b \in DOMAIN tasks :
       \A i \in DOMAIN tasks[a].inserted, j \in DOMAIN tasks[b].inserted :
          tasks[a].inserted[i] = tasks[b].inserted[j] => (a = b /\ i = j)

(* C34: when a pull inserts a local record for a remote row, no other      *)
(* pull has inserted a local record for that row: the check "no local      *)
(* record has this remoteId" and the insert are not separated by another   *)
(* pull's insert of the same row.                                          *)
C34_PullCheckThenInsert ==
    [][\A t \in DOMAIN tasks :
          (/\ tasks[t].pc = "write"
           /\ tasks'[t].pc # "write"
           /\ nextId' > nextId)
          => \A u \in DOMAIN tasks :
                u # t => tasks[t].data[tasks[t].j].id \notin tasks[u].created]_vars

(* C35: a queue entry that a user operation enqueued while a drain was in *)
(* progress is still in the queue when that drain finishes (unless another *)
(* drain read it and replayed it).                                         *)
C35_EnqueuedDuringDrainKept ==
    [][\A t \in DOMAIN tasks :
          (Draining(tasks[t]) /\ ~Draining(tasks'[t]))
          => \A x \in tasks[t].enq :
                (\A u \in DOMAIN tasks : u # t => x \notin Range(tasks[u].snapshot))
                => x \in Range(queue')]_vars

(* C36: a sign-in attempt for an account whose email is not confirmed,     *)
(* once the attempt and the SIGNED_IN handler it started have both         *)
(* finished, in either order, leaves the auth state                        *)
(* 'awaiting_confirmation'.                                                *)
C36_UnconfirmedNeverAuthenticated ==
    [][\A t \in DOMAIN tasks :
          LET h == tasks[t].handler
              over(T) == /\ T[t].pc = "done"
                         /\ T[t].handler # 0 => T[T[t].handler].pc = "done"
          IN  (/\ tasks[t].kind = "signIn"
               /\ ~tasks[t].confirmed
               /\ tasks[t].outcome # "rejected"
               /\ ~over(tasks)
               /\ over(tasks'))
              => authState'.status = "awaiting_confirmation"]_vars

(* C37: when signOut finishes, the auth state is 'unauthenticated' and     *)
(* SESSION_KEY is not stored, also when clearLocalEntries or the remote    *)
(* sign-out threw.                                                         *)
C37_SignOutAlwaysSignsOut ==
    [][\A t \in DOMAIN tasks :
          (/\ tasks[t].kind = "signOut"
           /\ tasks[t].pc # "done"
           /\ tasks'[t].pc = "done")
          => /\ authState'.status = "unauthenticated"
             /\ ~authState'.sessionKey]_vars

(* A signOut that met an error, started with SESSION_KEY stored, has       *)
(* finished                                                                *)
C37_Witness ==
    \E t \in DOMAIN tasks :
       /\ tasks[t].kind = "signOut"
       /\ tasks[t].pc = "done"
       /\ tasks[t].threw
       /\ tasks[t].hadKey

(* C38: when replaceAllEntries(userId, entries) resolves, the user's local *)
(* records are exactly the given entries, each stamped with that userId,   *)
(* none of the user's previous records remain, and other users' records    *)
(* are unchanged.                                                          *)
C38_ReplaceAllEntries ==
    [][(/\ tasks # <<>>
        /\ tasks[1].kind = "replaceAllEntries"
        /\ tasks[1].pc # "resolved"
        /\ tasks'[1].pc = "resolved")
       => LET u == tasks[1].userId
              given == tasks[1].before
              list0 == tasks[1].list
              mine == {k \in DOMAIN entries' : entries'[k].userId = u}
          IN  /\ \A f \in DbDrafts :
                    Cardinality({k \in mine : FieldsOf(entries'[k]) = f})
                       = Cardinality({i \in DOMAIN list0 : list0[i].f = f})
              /\ \A k \in mine : k \notin DOMAIN given
              /\ \A k \in DOMAIN given :
                    given[k].userId # u => (k \in DOMAIN entries' /\ entries'[k] = given[k])
              /\ \A k \in DOMAIN entries' :
                    entries'[k].userId # u => k \in DOMAIN given]_vars

(* A replaceAllEntries has resolved for a user who had records, with       *)
(* another user's records in the store, on a list with an entry given      *)
(* under another userId                                                    *)
C38_Witness ==
    /\ tasks # <<>>
    /\ tasks[1].kind = "replaceAllEntries"
    /\ tasks[1].pc = "resolved"
    /\ \E k \in DOMAIN tasks[1].before : tasks[1].before[k].userId = tasks[1].userId
    /\ \E k \in DOMAIN tasks[1].before : tasks[1].before[k].userId # tasks[1].userId
    /\ Len(tasks[1].list) > 0
    /\ \E k \in DOMAIN entries : entries[k].userId = tasks[1].userId

(* C39: the promise of bulkAddEntries eventually resolves or rejects, for  *)
(* every list, the empty list included.                                    *)
C39_BulkAddTerminates ==
    (tasks # <<>> /\ tasks[1].kind = "bulkAddEntries" /\ tasks[1].pc = "pending")
       ~> (tasks # <<>> /\ tasks[1].pc \in {"resolved", "rejected"})

====
